---------------------------- MODULE Spec2Model ----------------------------
(***************************************************************************)
(* The tiling core of miracle-wm: LeafNode (src/src/leaf_node.cpp), the    *)
(* OutputContent command surface (src/src/output_content.cpp) and, from    *)
(* the design specification, the lane (ParentNode) and TilingWindowTree    *)
(* that those two files call but that are not among the source files.      *)
(*                                                                         *)
(* Seven specifications are defined over the same variables:               *)
(*   Spec      the output layer driving one workspace's tiling tree; every *)
(*             action is one whole command, commit pass included.  It      *)
(*             follows the tree, the committed areas and the window        *)
(*             states; the clip and the rectangle the host is handed,      *)
(*             which no command reads back, are followed in LeafSpec;      *)
(*   LeafSpec  the LeafNode methods called one at a time on a leaf of a    *)
(*             lane of 1..MaxWindows leaves, as a unit test of LeafNode    *)
(*             would call them, with every host call logged;               *)
(*   WorkspaceSpec  the output's list of workspaces and the lookup of the  *)
(*             active one by the operations that need it;                  *)
(*   PlacementSpec  confirm_placement_on_display asked about the windows   *)
(*             of a laid-out lane and about floating windows;              *)
(*   FloatSpec the active workspace with its tree and its floating         *)
(*             windows: request_toggle_active_float and                    *)
(*             select_window_from_point;                                   *)
(*   SwitchSpec  advise_workspace_active and the completion of the         *)
(*             switches it hands to the animator;                          *)
(*   ZoneSpec  the application zone handlers and the zone list.            *)
(***************************************************************************)
EXTENDS Integers, Sequences, FiniteSets, TLC

(***************************************************************************)
(* Bounds of the model.                                                    *)
(***************************************************************************)
\* windows alive at a time
MaxWindows == 3
\* commands in a run of Spec
MaxSteps == 7
\* method calls in a run of LeafSpec, the layout of the lane included
MaxLeafSteps == 6
\* workspace ids the workspace manager hands out in a run of WorkspaceSpec
MaxWorkspaces == 3
\* requests handled in a run of FloatSpec
MaxFloatSteps == 6
\* events handled in a run of SwitchSpec
MaxSwitchSteps == 6
\* application zones the host has at a time, and zone events in a run of ZoneSpec
MaxZones == 2
MaxZoneSteps == 5

(***************************************************************************)
(* Program constants.                                                      *)
(***************************************************************************)
ResizeJump == 50

\* workspace ids, the value active_workspace has before any workspace was
\* activated, and the workspace an output holds when its tree is in use
WorkspaceIds == 1..MaxWorkspaces
NoWorkspace == -1
FirstWorkspace == 1

\* the operations of OutputContent that call get_active_tree() or
\* get_active_workspace()
ActiveWorkspaceOperations ==
    {"allocate_position", "advise_new_window", "handle_modify_window",
     "advise_state_change", "select_window_from_point", "resize_active_window",
     "select", "move_active_window", "request_vertical", "request_horizontal",
     "toggle_resize_mode", "toggle_fullscreen", "request_toggle_active_float",
     "find_window_on_active_workspace_matching_predicate"}
\* advise_workspace_active has not been called yet
NoSwitch == [key |-> NoWorkspace, ret |-> FALSE, effects |-> <<>>]
\* no operation has asked for the active workspace yet
NoLookup == [op |-> "none", thrown |-> FALSE, at |-> 0]

Windows == 1..MaxWindows
Root == MaxWindows + 1
LaneIds == (MaxWindows + 1)..(2 * MaxWindows)
NodeIds == Windows \cup LaneIds
NoNode == 0
\* select_window_from_point has not been called yet
NoSelection == [x |-> 0, y |-> 0, window |-> NoNode]

Directions == {"left", "right", "up", "down"}
LayoutDirections == {"horizontal", "vertical"}
DefaultSplit == "horizontal"

(***************************************************************************)
(* MirWindowState values the code names or receives; NoState is an empty   *)
(* std::optional<MirWindowState>.                                          *)
(***************************************************************************)
WindowStates == {"restored", "maximized", "fullscreen", "hidden"}
\* the states a client asks for through handle_modify_window
RequestedStates == {"restored", "maximized", "fullscreen"}
NoState == "none"

(***************************************************************************)
(* geom::Rectangle; NoRect is an empty std::optional<geom::Rectangle>.     *)
(***************************************************************************)
Rect(x, y, w, h) == [x |-> x, y |-> y, w |-> w, h |-> h]
NoRect == Rect(0, 0, -1, -1)

\* WindowType values of a window's metadata
WindowTypes == {"tiled", "floating", "other"}
\* confirm_placement_on_display has not been called yet
NoPlacement ==
    [window |-> NoNode, type |-> "other", state |-> NoState, proposed |-> NoRect,
     tree |-> NoRect, floating |-> NoRect, returned |-> NoRect]

OutputAreas == {Rect(0, 0, 1920, 1080), Rect(0, 0, 192, 108)}
GapConfigs == {<<10, 10>>, <<5, 0>>}

Max(a, b) == IF a >= b THEN a ELSE b
Min(a, b) == IF a <= b THEN a ELSE b

\* a variant of HalfGap that truncates the half instead of rounding it up
HalfGapTruncated(gap) == gap \div 2

\* (int)ceil((double)gap / 2.0) for a gap >= 0
HalfGap(gap) == (gap + 1) \div 2

\* geom::Rectangle::contains(Rectangle): edge-wise containment
Contains(outer, inner) ==
    /\ inner.x >= outer.x
    /\ inner.x + inner.w <= outer.x + outer.w
    /\ inner.y >= outer.y
    /\ inner.y + inner.h <= outer.y + outer.h

\* two rectangles share a point of positive area
Overlap(a, b) ==
    /\ a.w > 0 /\ a.h > 0 /\ b.w > 0 /\ b.h > 0
    /\ a.x < b.x + b.w /\ b.x < a.x + a.w
    /\ a.y < b.y + b.h /\ b.y < a.y + a.h

VARIABLES
    parent,             \* Node::parent: node -> its lane, NoNode for the root and for unused nodes
    children,           \* ParentNode::sub_nodes: lane -> sequence of nodes
    direction,          \* ParentNode::direction: lane -> layout direction
    logical_area,       \* committed logical area of every node
    next_logical_area,  \* pending logical area of every node, NoRect when none
    next_state,         \* LeafNode::next_state, NoState when none
    before_shown_state, \* LeafNode::before_shown_state, NoState when none
    window_state,       \* host: the window's MirWindowState
    clip_area,          \* host: the window's clip, NoRect when not clipped (LeafSpec)
    rectangle,          \* host: the rectangle last given by set_rectangle (LeafSpec)
    active_window,      \* OutputContent::active_window, NoNode when unset
    is_resizing,        \* TilingWindowTree interaction mode: TRUE in resize mode
    area,               \* OutputContent::area
    gaps,               \* MiracleConfig inner gaps <<x, y>>
    steps,              \* number of commands handled (Spec) or methods called (LeafSpec)
    calls,              \* host calls issued by the last LeafNode method (LeafSpec)
    ret,                \* the value the last command returned (TRUE for a void command)
    workspaces,         \* OutputContent::workspaces: the ids of the listed workspaces, in order
    active_workspace,   \* OutputContent::active_workspace
    lookup,             \* the last operation that asked for the active workspace, and its outcome
    placement,          \* the last confirm_placement_on_display call: arguments and answers
    floating_windows,   \* WorkspaceContent::floating_windows of the active workspace
    selected,           \* the last select_window_from_point call and the window it selected
    hidden_workspaces,  \* the workspaces whose hide() was called last (show() not since)
    occupied,           \* the workspaces whose tree is not empty or that have floating windows
    animations,         \* the workspace switches the animator has not completed yet
    switched,           \* the last advise_workspace_active call: key, answer, calls in order
    host_zones,         \* the application zones the host has
    application_zone_list,  \* OutputContent::application_zone_list
    recalculated        \* whether the last zone handler recalculated the root areas

vars == <<parent, children, direction, logical_area, next_logical_area, next_state,
          before_shown_state, window_state, clip_area, rectangle, active_window,
          is_resizing, area, gaps, steps, calls, ret,
          workspaces, active_workspace, lookup, placement,
          floating_windows, selected, hidden_workspaces, occupied, animations, switched,
          host_zones, application_zone_list, recalculated>>

treeVars == <<parent, children, direction, logical_area, next_logical_area>>
leafVars == <<next_state, before_shown_state>>
hostVars == <<window_state, clip_area, rectangle>>
wsVars == <<workspaces, active_workspace, lookup>>
floatVars == <<floating_windows, selected>>
switchVars == <<hidden_workspaces, occupied, animations, switched>>
zoneVars == <<host_zones, application_zone_list, recalculated>>


(***************************************************************************)
(* The host (TilingInterface).  A host call is logged as a record.         *)
(***************************************************************************)
Call(name, st, from, to) == [call |-> name, state |-> st, from |-> from, to |-> to]

\* window_helpers::is_window_fullscreen, which TilingInterface::is_fullscreen
\* applies to the window's state
is_window_fullscreen(st) == st \in {"maximized", "fullscreen"}

(***************************************************************************)
(* LeafNode.  A leaf together with its window's host data is a record      *)
(*   la, nla   logical_area, next_logical_area                             *)
(*   ns, bss   next_state, before_shown_state                              *)
(*   st, clip, rect   the host's state, clip and rectangle of the window   *)
(*   calls     the host calls issued so far                                *)
(* nb is the result of get_neighbors(): Directions -> BOOLEAN; g the gaps. *)
(***************************************************************************)
get_logical_area(L) == IF L.nla # NoRect THEN L.nla ELSE L.la

\* a variant of set_logical_area that writes the committed area at once
set_logical_area_immediate(L, target_rect) == [L EXCEPT !.la = target_rect]

set_logical_area(L, target_rect) == [L EXCEPT !.nla = target_rect]

get_visible_area(L, nb, g) ==
    LET half_gap_x == HalfGap(g[1])
        half_gap_y == HalfGap(g[2])
        dl == IF nb["left"] THEN half_gap_x ELSE 0
        dr == IF nb["right"] THEN half_gap_x ELSE 0
        du == IF nb["up"] THEN half_gap_y ELSE 0
        dd == IF nb["down"] THEN half_gap_y ELSE 0
    IN  Rect(L.la.x + dl, L.la.y + du, L.la.w - dl - dr, L.la.h - du - dd)

constrain(L, nb, g) ==
    IF is_window_fullscreen(L.st)
    THEN [L EXCEPT !.clip = NoRect,
                   !.calls = Append(@, Call("noclip", NoState, NoRect, NoRect))]
    ELSE [L EXCEPT !.clip = get_visible_area(L, nb, g),
                   !.calls = Append(@, Call("clip", NoState, NoRect, get_visible_area(L, nb, g)))]

get_min_width == 50

get_min_height == 50

\* a variant of show that stages the restored state when nothing was saved
show_defaulting_to_restored(L) ==
    [L EXCEPT !.ns = IF L.bss # NoState THEN L.bss ELSE "restored", !.bss = NoState]

show(L) == [L EXCEPT !.ns = L.bss, !.bss = NoState]

\* a variant of hide that saves no snapshot
hide_without_snapshot(L) == [L EXCEPT !.ns = "hidden"]

\* a variant of hide that keeps a snapshot it already has
hide_keeping_first_snapshot(L) ==
    [L EXCEPT !.bss = IF L.bss # NoState THEN L.bss ELSE L.st, !.ns = "hidden"]

hide(L) == [L EXCEPT !.bss = L.st, !.ns = "hidden"]

\* a variant of toggle_fullscreen that never stages the restored state
toggle_fullscreen_always_maximize(L) == [L EXCEPT !.ns = "maximized"]

toggle_fullscreen(L) ==
    IF is_window_fullscreen(L.st)
    THEN [L EXCEPT !.ns = "restored"]
    ELSE [L EXCEPT !.ns = "maximized"]

is_fullscreen(L) == L.st = "maximized"

\* a variant of commit_state that reapplies the current state when none is pending
commit_state_unconditional(L, nb, g) ==
    LET st == IF L.ns # NoState THEN L.ns ELSE L.st
        changed == [L EXCEPT !.st = st,
                             !.calls = Append(@, Call("change_state", st, NoRect, NoRect))]
    IN  [constrain(changed, nb, g) EXCEPT !.ns = NoState]

\* the first half of commit_changes: the pending state
commit_state(L, nb, g) ==
    IF L.ns # NoState
    THEN LET changed == [L EXCEPT !.st = L.ns,
                                  !.calls = Append(@, Call("change_state", L.ns, NoRect, NoRect))]
         IN  [constrain(changed, nb, g) EXCEPT !.ns = NoState]
    ELSE L

\* a variant of commit_area that leaves the pending area in place
commit_area_pending_kept(L, nb, g) == IF L.nla # NoRect THEN [L EXCEPT !.la = L.nla] ELSE L

\* the second half of commit_changes: the pending logical area
commit_area(L, nb, g) ==
    IF L.nla # NoRect
    THEN LET previous == get_visible_area(L, nb, g)
             moved == [L EXCEPT !.la = L.nla, !.nla = NoRect]
         IN  IF ~is_window_fullscreen(moved.st)
             THEN constrain([moved EXCEPT
                                !.rect = get_visible_area(moved, nb, g),
                                !.calls = Append(@, Call("set_rectangle", NoState, previous,
                                                         get_visible_area(moved, nb, g)))],
                            nb, g)
             ELSE moved
    ELSE L

\* a variant of commit_changes that applies the pending area before the state
commit_changes_area_first(L, nb, g) == commit_state(commit_area(L, nb, g), nb, g)

commit_changes(L, nb, g) == commit_area(commit_state(L, nb, g), nb, g)


(***************************************************************************)
(* The world: every node's fields and every window's host data, as one     *)
(* record of functions that the commands below transform.                  *)
(***************************************************************************)
World ==
    [parent |-> parent, children |-> children, direction |-> direction,
     la |-> logical_area, nla |-> next_logical_area,
     ns |-> next_state, bss |-> before_shown_state,
     st |-> window_state, clip |-> clip_area, rect |-> rectangle,
     calls |-> <<>>]

LeafOf(W, w) ==
    [la |-> W.la[w], nla |-> W.nla[w], ns |-> W.ns[w], bss |-> W.bss[w],
     st |-> W.st[w], clip |-> W.clip[w], rect |-> W.rect[w], calls |-> W.calls]

PutLeaf(W, w, L) ==
    [W EXCEPT !.la[w] = L.la, !.nla[w] = L.nla, !.ns[w] = L.ns, !.bss[w] = L.bss,
              !.st[w] = L.st, !.clip[w] = L.clip, !.rect[w] = L.rect, !.calls = L.calls]

\* a window is tiled when its leaf hangs in the tree
InTree(W, n) == W.parent[n] # NoNode
Leaves(W) == {w \in Windows : InTree(W, w)}
Lanes(W) == {l \in LaneIds : l = Root \/ InTree(W, l)}

IndexOf(seq, n) == CHOOSE i \in 1..Len(seq) : seq[i] = n
RemoveAt(seq, i) == SubSeq(seq, 1, i - 1) \o SubSeq(seq, i + 1, Len(seq))
InsertAt(seq, i, n) == SubSeq(seq, 1, i - 1) \o <<n>> \o SubSeq(seq, i, Len(seq))

RECURSIVE SumSeq(_)
SumSeq(seq) == IF Len(seq) = 0 THEN 0 ELSE seq[1] + SumSeq(Tail(seq))

RECURSIVE MaxSeq(_)
MaxSeq(seq) == IF Len(seq) = 0 THEN 0 ELSE Max(seq[1], MaxSeq(Tail(seq)))

Axis(d) == IF d \in {"left", "right"} THEN "horizontal" ELSE "vertical"
Forward(d) == d \in {"right", "down"}
AxisLen(r, a) == IF a = "horizontal" THEN r.w ELSE r.h

(***************************************************************************)
(* Node (shared capability).                                               *)
(***************************************************************************)
\* Node::get_logical_area: the pending area if set, else the committed one
node_area(W, n) == IF W.nla[n] # NoRect THEN W.nla[n] ELSE W.la[n]

\* a variant of get_neighbors that reports a neighbor on every side
get_neighbors_on_every_side(W, n) == [d \in Directions |-> TRUE]

\* Node::get_neighbors: an adjacent sibling in the node's own lane, per direction
get_neighbors(W, n) ==
    IF ~InTree(W, n)
    THEN [d \in Directions |-> FALSE]
    ELSE LET p == W.parent[n]
             i == IndexOf(W.children[p], n)
             k == Len(W.children[p])
         IN  [d \in Directions |->
                 /\ W.direction[p] = Axis(d)
                 /\ IF Forward(d) THEN i < k ELSE i > 1]

(***************************************************************************)
(* ParentNode (lane).                                                      *)
(***************************************************************************)
\* a variant of get_min under which no node has a floor
get_min_zero(W, n, a) == 0

\* the floor of a node along an axis: 50 for a leaf; for a lane what its
\* children need, side by side along its own axis and the largest across it
RECURSIVE get_min(_, _, _)
get_min(W, n, a) ==
    IF n \in Windows
    THEN IF a = "horizontal" THEN get_min_width ELSE get_min_height
    ELSE LET ks == W.children[n]
             ms == [i \in 1..Len(ks) |-> get_min(W, ks[i], a)]
         IN  IF W.direction[n] = a THEN SumSeq(ms) ELSE MaxSeq(ms)

\* take `excess` away from the sizes, last child first, none below its floor
RECURSIVE take_excess(_, _, _, _)
take_excess(sizes, ms, excess, i) ==
    IF excess = 0 \/ i = 0
    THEN sizes
    ELSE LET cut == Min(excess, sizes[i] - ms[i])
         IN  take_excess([j \in 1..Len(sizes) |-> IF j = i THEN sizes[j] - cut ELSE sizes[j]],
                         ms, excess - cut, i - 1)

\* the proportional shares of the lane's size S, the last child taking the
\* remainder of the division
shares(S, ws) ==
    LET n == Len(ws)
        total_w == SumSeq(ws)
        raw == [i \in 1..n |-> IF total_w > 0 THEN (S * ws[i]) \div total_w ELSE S \div n]
    IN  [i \in 1..n |-> IF i = n THEN raw[i] + (S - SumSeq(raw)) ELSE raw[i]]

\* whether the children's floors do not fit into the lane's size
floors_exceed(S, ms) == SumSeq(ms) > S

\* a variant of distribute that clamps to the floors and takes nothing back
distribute_clamped(S, ws, ms) == [i \in 1..Len(ws) |-> Max(ms[i], shares(S, ws)[i])]

\* the sizes of a lane's children along its axis: proportional to the weights
\* ws, none below its floor ms, summing to the lane's size S; when the floors
\* do not fit, every child is only clamped to its floor
distribute(S, ws, ms) ==
    LET n == Len(ws)
        raw == [i \in 1..n |-> Max(ms[i], shares(S, ws)[i])]
    IN  IF n = 0 THEN <<>>
        ELSE IF floors_exceed(S, ms) THEN raw
        ELSE take_excess(raw, ms, SumSeq(raw) - S, n)

\* variants of offsets: every child starts where the lane starts, or where it ends
offsets_at_origin(S, ws, ms) == [i \in 1..Len(ws) |-> 0]

offsets_past_end(S, ws, ms) == [i \in 1..Len(ws) |-> S]

\* where each child starts along the axis: one after the other; when the
\* floors do not fit, at its proportional place, so that children clamped to
\* their floors overlap and overflow
offsets(S, ws, ms) ==
    LET from == IF floors_exceed(S, ms) THEN shares(S, ws) ELSE distribute(S, ws, ms)
    IN  [i \in 1..Len(ws) |-> SumSeq(SubSeq(from, 1, i - 1))]

child_weights(W, lane) ==
    [i \in 1..Len(W.children[lane]) |->
        AxisLen(node_area(W, W.children[lane][i]), W.direction[lane])]

child_mins(W, lane) ==
    [i \in 1..Len(W.children[lane]) |-> get_min(W, W.children[lane][i], W.direction[lane])]

RECURSIVE place_children(_, _, _, _, _)
RECURSIVE set_node_area(_, _, _)

\* ParentNode::redistribute_size with the given weights of the children
redistribute_with(W, lane, ws) ==
    LET S == AxisLen(node_area(W, lane), W.direction[lane])
        ms == child_mins(W, lane)
    IN  place_children(W, lane, distribute(S, ws, ms), offsets(S, ws, ms), 1)

\* the children from the i-th on are given their place along the axis, each
\* spanning the lane across the axis
place_children(W, lane, sizes, offs, i) ==
    IF i > Len(W.children[lane])
    THEN W
    ELSE LET a == node_area(W, lane)
             r == IF W.direction[lane] = "horizontal"
                  THEN Rect(a.x + offs[i], a.y, sizes[i], a.h)
                  ELSE Rect(a.x, a.y + offs[i], a.w, sizes[i])
         IN  place_children(set_node_area(W, W.children[lane][i], r), lane, sizes, offs,
                            i + 1)

\* set_logical_area: a leaf stages the area; a lane stages it and
\* redistributes it among its children by their present sizes
set_node_area(W, n, r) ==
    IF n \in Windows
    THEN PutLeaf(W, n, set_logical_area(LeafOf(W, n), r))
    ELSE redistribute_with([W EXCEPT !.nla[n] = r], n, child_weights(W, n))

redistribute_size(W, lane) == redistribute_with(W, lane, child_weights(W, lane))

\* a variant of insert_node that always appends the node to the lane
insert_node_last(W, lane, node, index) ==
    LET old_ws == child_weights(W, lane)
        n == Len(old_ws)
        share == IF n = 0
                 THEN Max(1, AxisLen(node_area(W, lane), W.direction[lane]))
                 ELSE Max(1, SumSeq(old_ws) \div n)
        W1 == [W EXCEPT !.children[lane] = Append(@, node),
                        !.parent[node] = lane]
    IN  redistribute_with(W1, lane, Append(old_ws, share))

\* ParentNode::insert_node: the new child weighs an equal share of the lane
insert_node(W, lane, node, index) ==
    LET old_ws == child_weights(W, lane)
        n == Len(old_ws)
        share == IF n = 0
                 THEN Max(1, AxisLen(node_area(W, lane), W.direction[lane]))
                 ELSE Max(1, SumSeq(old_ws) \div n)
        W1 == [W EXCEPT !.children[lane] = InsertAt(@, index, node),
                        !.parent[node] = lane]
    IN  redistribute_with(W1, lane, InsertAt(old_ws, index, share))

\* a variant of collapse that puts the remaining child last in the grandparent
collapse_to_the_end(W, lane) ==
    LET gp == W.parent[lane]
        slot == IndexOf(W.children[gp], lane)
        c == W.children[lane][1]
        W1 == [W EXCEPT !.children[gp] = Append(RemoveAt(@, slot), c),
                        !.children[lane] = <<>>,
                        !.parent[c] = gp,
                        !.parent[lane] = NoNode,
                        !.direction[lane] = DefaultSplit,
                        !.la[lane] = NoRect,
                        !.nla[lane] = NoRect]
    IN  set_node_area(W1, c, node_area(W, lane))

\* a lane left with one child is spliced out: the child takes the lane's slot
\* in the grandparent and the lane is discarded
collapse(W, lane) ==
    LET gp == W.parent[lane]
        slot == IndexOf(W.children[gp], lane)
        c == W.children[lane][1]
        W1 == [W EXCEPT !.children[gp][slot] = c,
                        !.children[lane] = <<>>,
                        !.parent[c] = gp,
                        !.parent[lane] = NoNode,
                        !.direction[lane] = DefaultSplit,
                        !.la[lane] = NoRect,
                        !.nla[lane] = NoRect]
    IN  set_node_area(W1, c, node_area(W, lane))

\* a variant of remove_node that never splices a lane out
remove_node_keeping(W, node) ==
    LET lane == W.parent[node]
        i == IndexOf(W.children[lane], node)
        ws == RemoveAt(child_weights(W, lane), i)
    IN  redistribute_with([W EXCEPT !.children[lane] = RemoveAt(@, i),
                                    !.parent[node] = NoNode],
                          lane, ws)

\* ParentNode::remove_node: the freed space is split equally among the
\* children that remain
remove_node(W, node) ==
    LET lane == W.parent[node]
        i == IndexOf(W.children[lane], node)
        freed == AxisLen(node_area(W, node), W.direction[lane])
        ws == RemoveAt(child_weights(W, lane), i)
        W1 == [W EXCEPT !.children[lane] = RemoveAt(@, i),
                        !.parent[node] = NoNode]
    IN  IF Len(ws) = 1 /\ lane # Root
        THEN collapse(W1, lane)
        ELSE redistribute_with(W1, lane, [j \in 1..Len(ws) |-> ws[j] + freed \div Len(ws)])

\* ParentNode::move_node: reorder, then redistribute in the new order
move_node(W, lane, from, to) ==
    LET ks == W.children[lane]
        W1 == [W EXCEPT !.children[lane] = InsertAt(RemoveAt(ks, from), to, ks[from])]
    IN  redistribute_size(W1, lane)

\* neighbor lookup with forwarding: the adjacent sibling in the nearest lane
\* of the direction's axis, looking upward from the node
RECURSIVE neighbor_node(_, _, _)
neighbor_node(W, n, d) ==
    IF ~InTree(W, n)
    THEN NoNode
    ELSE LET p == W.parent[n]
             i == IndexOf(W.children[p], n)
             j == IF Forward(d) THEN i + 1 ELSE i - 1
         IN  IF W.direction[p] = Axis(d) /\ j \in 1..Len(W.children[p])
             THEN W.children[p][j]
             ELSE neighbor_node(W, p, d)

\* the leaf met first when a node is entered in direction d
RECURSIVE entry_leaf(_, _, _)
entry_leaf(W, n, d) ==
    IF n \in Windows
    THEN n
    ELSE LET ks == W.children[n]
         IN  entry_leaf(W, IF W.direction[n] = Axis(d) /\ ~Forward(d)
                           THEN ks[Len(ks)] ELSE ks[1], d)

(***************************************************************************)
(* The commit pass: every node's commit_changes().                         *)
(***************************************************************************)
RECURSIVE commit_leaves(_, _)
commit_leaves(W, w) ==
    IF w > MaxWindows
    THEN W
    ELSE commit_leaves(IF InTree(W, w)
                       THEN PutLeaf(W, w, commit_changes(LeafOf(W, w), get_neighbors(W, w), gaps))
                       ELSE W,
                       w + 1)

commit_pass(W) ==
    commit_leaves([W EXCEPT
                      !.la = [n \in NodeIds |->
                                 IF n \in LaneIds /\ W.nla[n] # NoRect THEN W.nla[n] ELSE W.la[n]],
                      !.nla = [n \in NodeIds |-> IF n \in LaneIds THEN NoRect ELSE W.nla[n]]],
                  1)

(***************************************************************************)
(* TilingWindowTree.  A command yields the new world, the new selection,   *)
(* the new interaction mode and its return value.                          *)
(***************************************************************************)
TreeResult(W, act, rz, rv) == [W |-> W, active |-> act, resizing |-> rz, ret |-> rv]

Selected(W, act) == act # NoNode /\ InTree(W, act)

\* the lane node a split creates: the unused lane of least id
FreeLane(W) ==
    CHOOSE l \in LaneIds \ {Root} :
        /\ ~InTree(W, l)
        /\ \A m \in LaneIds \ {Root} : ~InTree(W, m) => l <= m

Perpendicular(a) == IF a = "horizontal" THEN "vertical" ELSE "horizontal"

\* a new lane takes the place of leaf `at`, holding `kids`
split_at(W, at, kids, dir) ==
    LET lane == FreeLane(W)
        p == W.parent[at]
        slot == IndexOf(W.children[p], at)
    IN  [W EXCEPT !.children[p][slot] = lane,
                  !.children[lane] = kids,
                  !.parent[lane] = p,
                  !.parent[at] = lane,
                  !.direction[lane] = dir,
                  !.nla[lane] = node_area(W, at)]

\* allocate_position and advise_new_window: the new leaf goes next to the
\* selection along the default split axis; a split is required when the
\* selection's lane runs along the other axis
tree_advise_new_window(W, act, w) ==
    IF ~Selected(W, act)
    THEN commit_pass(insert_node(W, Root, w, Len(W.children[Root]) + 1))
    ELSE LET p == W.parent[act]
         IN  IF W.direction[p] = DefaultSplit
             THEN commit_pass(insert_node(W, p, w, IndexOf(W.children[p], act) + 1))
             ELSE LET W1 == split_at(W, act, <<act>>, DefaultSplit)
                  IN  commit_pass(insert_node(W1, W1.parent[act], w, 2))

\* what LeafNode's destructor and the host's forgetting the window leave
forget_leaf(W, w) ==
    [W EXCEPT !.la[w] = NoRect, !.nla[w] = NoRect, !.ns[w] = NoState, !.bss[w] = NoState,
              !.st[w] = "restored", !.clip[w] = NoRect, !.rect[w] = NoRect]

\* advise_delete_window: remove the leaf; the selection advances to a sibling
tree_advise_delete_window(W, act, rz, w) ==
    LET p == W.parent[w]
        ks == W.children[p]
        i == IndexOf(ks, w)
        sibling == IF Len(ks) = 1 THEN NoNode
                   ELSE IF i < Len(ks) THEN ks[i + 1] ELSE ks[i - 1]
        nextsel == IF act # w THEN act
                   ELSE IF sibling = NoNode THEN NoNode
                   ELSE entry_leaf(W, sibling, "right")
    IN  TreeResult(commit_pass(forget_leaf(remove_node(W, w), w)), nextsel, rz, TRUE)

try_select_next(W, act, rz, d) ==
    IF ~Selected(W, act) \/ neighbor_node(W, act, d) = NoNode
    THEN TreeResult(W, act, rz, FALSE)
    ELSE TreeResult(W, entry_leaf(W, neighbor_node(W, act, d), d), rz, TRUE)

try_move_active_window(W, act, rz, d) ==
    IF ~Selected(W, act) \/ neighbor_node(W, act, d) = NoNode
    THEN TreeResult(W, act, rz, FALSE)
    ELSE LET nb == neighbor_node(W, act, d)
             p == W.parent[act]
         IN  IF nb \in Windows /\ W.parent[nb] = p
             THEN \* a sibling slot in the same lane: swap order
                  TreeResult(commit_pass(move_node(W, p, IndexOf(W.children[p], act),
                                                   IndexOf(W.children[p], nb))),
                             act, rz, TRUE)
             ELSE IF nb \in LaneIds
             THEN \* an adjacent lane: enter it at the nearest edge
                  LET W1 == remove_node(W, act)
                      at == IF W1.direction[nb] = Axis(d) /\ ~Forward(d)
                            THEN Len(W1.children[nb]) + 1 ELSE 1
                  IN  TreeResult(commit_pass(insert_node(W1, nb, act, at)), act, rz, TRUE)
             ELSE \* a single leaf across a lane boundary: a new lane holds both
                  LET W1 == remove_node(W, act)
                      W2 == split_at(W1, nb, <<>>, Perpendicular(Axis(d)))
                      lane == W2.parent[nb]
                      W3 == insert_node(W2, lane, nb, 1)
                  IN  TreeResult(commit_pass(insert_node(W3, lane, act,
                                                         IF Forward(d) THEN 1 ELSE 2)),
                                 act, rz, TRUE)

\* directional resize of the active leaf's parent lane
try_resize_active_window(W, act, rz, d) ==
    IF ~rz \/ ~Selected(W, act)
    THEN TreeResult(W, act, rz, FALSE)
    ELSE LET p == W.parent[act]
             i == IndexOf(W.children[p], act)
             j == IF Forward(d) THEN i + 1 ELSE i - 1
         IN  IF W.direction[p] # Axis(d) \/ j \notin 1..Len(W.children[p])
             THEN TreeResult(W, act, rz, FALSE)
             ELSE LET nb == W.children[p][j]
                      a == node_area(W, act)
                      b == node_area(W, nb)
                      delta == Min(ResizeJump,
                                   AxisLen(b, Axis(d)) - get_min(W, nb, Axis(d)))
                      h == Axis(d) = "horizontal"
                      a2 == IF Forward(d)
                            THEN Rect(a.x, a.y, a.w + (IF h THEN delta ELSE 0),
                                      a.h + (IF h THEN 0 ELSE delta))
                            ELSE Rect(a.x - (IF h THEN delta ELSE 0),
                                      a.y - (IF h THEN 0 ELSE delta),
                                      a.w + (IF h THEN delta ELSE 0),
                                      a.h + (IF h THEN 0 ELSE delta))
                      b2 == IF Forward(d)
                            THEN Rect(b.x + (IF h THEN delta ELSE 0),
                                      b.y + (IF h THEN 0 ELSE delta),
                                      b.w - (IF h THEN delta ELSE 0),
                                      b.h - (IF h THEN 0 ELSE delta))
                            ELSE Rect(b.x, b.y, b.w - (IF h THEN delta ELSE 0),
                                      b.h - (IF h THEN 0 ELSE delta))
                  IN  IF delta <= 0
                      THEN TreeResult(W, act, rz, FALSE)
                      ELSE TreeResult(commit_pass(set_node_area(set_node_area(W, act, a2),
                                                                nb, b2)),
                                      act, rz, TRUE)

\* request_vertical / request_horizontal
request_axis(W, act, a) ==
    IF ~Selected(W, act)
    THEN W
    ELSE LET p == W.parent[act]
         IN  commit_pass(redistribute_size([W EXCEPT !.direction[p] = a], p))

\* a variant of clear_fullscreen that clears nothing
clear_nothing(W, keep, w) == W

\* every fullscreen leaf other than `keep` is staged to leave fullscreen
RECURSIVE clear_fullscreen(_, _, _)
clear_fullscreen(W, keep, w) ==
    IF w > MaxWindows
    THEN W
    ELSE clear_fullscreen(IF InTree(W, w) /\ w # keep /\ is_fullscreen(LeafOf(W, w))
                          THEN PutLeaf(W, w, toggle_fullscreen(LeafOf(W, w)))
                          ELSE W,
                          keep, w + 1)

\* a variant of try_toggle_active_fullscreen that leaves the interaction mode alone
toggle_active_fullscreen_keeping_mode(W, act, rz) ==
    IF ~Selected(W, act)
    THEN TreeResult(W, act, rz, FALSE)
    ELSE LET entering == toggle_fullscreen(LeafOf(W, act)).ns = "maximized"
             W1 == IF entering THEN clear_fullscreen(W, act, 1) ELSE W
             W2 == PutLeaf(W1, act, toggle_fullscreen(LeafOf(W1, act)))
         IN  TreeResult(commit_pass(W2), act, rz, TRUE)

try_toggle_active_fullscreen(W, act, rz) ==
    IF ~Selected(W, act)
    THEN TreeResult(W, act, rz, FALSE)
    ELSE LET entering == toggle_fullscreen(LeafOf(W, act)).ns = "maximized"
             W1 == IF entering THEN clear_fullscreen(W, act, 1) ELSE W
             W2 == PutLeaf(W1, act, toggle_fullscreen(LeafOf(W1, act)))
         IN  TreeResult(commit_pass(W2), act, IF entering THEN FALSE ELSE rz, TRUE)

advise_fullscreen_window(W, w) == commit_pass(clear_fullscreen(W, w, 1))

advise_restored_window(W, w) == W

tree_constrain(W, w) == PutLeaf(W, w, constrain(LeafOf(W, w), get_neighbors(W, w), gaps))

\* set_output_area and recalculate_root_node_area: the root takes the output
\* area and redistributes recursively
set_output_area(W, r) == commit_pass(set_node_area(W, Root, r))

has_fullscreen_window(W) == \E w \in Leaves(W) : is_fullscreen(LeafOf(W, w))

(***************************************************************************)
(* OutputContent: the commands of the output layer on its active tree.     *)
(***************************************************************************)
Install(W) ==
    /\ parent' = W.parent
    /\ children' = W.children
    /\ direction' = W.direction
    /\ logical_area' = W.la
    /\ next_logical_area' = W.nla
    /\ next_state' = W.ns
    /\ before_shown_state' = W.bss
    /\ window_state' = W.st
    /\ UNCHANGED <<clip_area, rectangle>>

InstallResult(r) ==
    /\ Install(r.W)
    /\ active_window' = r.active
    /\ is_resizing' = r.resizing

Tiled(w) == parent[w] # NoNode

\* one more command is handled
Tick ==
    /\ steps < MaxSteps
    /\ steps' = steps + 1
    /\ UNCHANGED <<wsVars, placement, floatVars, switchVars, zoneVars>>

\* allocate_position, advise_new_window and handle_window_ready of a tileable
\* window; the host then focuses it
advise_new_window(w) ==
    /\ Tick
    /\ ~Tiled(w)
    /\ \A v \in Windows : v < w => Tiled(v)
    /\ Install(tree_advise_new_window(World, active_window, w))
    /\ active_window' = w
    /\ ret' = TRUE
    /\ UNCHANGED <<is_resizing, area, gaps, calls>>

advise_delete_window(w) ==
    /\ Tick
    /\ Tiled(w)
    /\ InstallResult(tree_advise_delete_window(World, active_window, is_resizing, w))
    /\ ret' = TRUE
    /\ UNCHANGED <<area, gaps, calls>>

advise_focus_gained(w) ==
    /\ Tick
    /\ Tiled(w)
    /\ active_window' = w
    /\ ret' = TRUE
    /\ UNCHANGED <<treeVars, leafVars, hostVars, is_resizing, area, gaps, calls>>

handle_modify_window(w, st) ==
    /\ Tick
    /\ Tiled(w)
    /\ LET W1 == IF is_window_fullscreen(st)
                 THEN advise_fullscreen_window(World, w)
                 ELSE IF st = "restored"
                 THEN advise_restored_window(World, w)
                 ELSE World
           W2 == tree_constrain(W1, w)
       IN  Install([W2 EXCEPT !.st[w] = st])
    /\ ret' = TRUE
    /\ UNCHANGED <<active_window, is_resizing, area, gaps, calls>>

resize_active_window(d) ==
    LET r == try_resize_active_window(World, active_window, is_resizing, d)
    IN  /\ Tick
        /\ InstallResult(r)
        /\ ret' = r.ret
        /\ UNCHANGED <<area, gaps, calls>>

select(d) ==
    LET r == try_select_next(World, active_window, is_resizing, d)
    IN  /\ Tick
        /\ InstallResult(r)
        /\ ret' = r.ret
        /\ UNCHANGED <<area, gaps, calls>>

\* a variant of move_active_window that reports success whatever the tree says
move_reporting_success(d) ==
    LET r == try_move_active_window(World, active_window, is_resizing, d)
    IN  /\ Tick
        /\ InstallResult(r)
        /\ ret' = TRUE
        /\ UNCHANGED <<area, gaps, calls>>

move_active_window(d) ==
    LET r == try_move_active_window(World, active_window, is_resizing, d)
    IN  /\ Tick
        /\ InstallResult(r)
        /\ ret' = r.ret
        /\ UNCHANGED <<area, gaps, calls>>

request_vertical ==
    /\ Tick
    /\ Install(request_axis(World, active_window, "vertical"))
    /\ ret' = TRUE
    /\ UNCHANGED <<active_window, is_resizing, area, gaps, calls>>

request_horizontal ==
    /\ Tick
    /\ Install(request_axis(World, active_window, "horizontal"))
    /\ ret' = TRUE
    /\ UNCHANGED <<active_window, is_resizing, area, gaps, calls>>

toggle_resize_mode ==
    /\ Tick
    /\ is_resizing' = ~is_resizing
    /\ ret' = TRUE
    /\ UNCHANGED <<treeVars, leafVars, hostVars, active_window, area, gaps, calls>>

\* OutputContent::toggle_fullscreen: the tree's answer is dropped
output_toggle_fullscreen ==
    LET r == try_toggle_active_fullscreen(World, active_window, is_resizing)
    IN  /\ Tick
        /\ InstallResult(r)
        /\ ret' = TRUE
        /\ UNCHANGED <<area, gaps, calls>>

update_area(new_area) ==
    /\ Tick
    /\ area' = new_area
    /\ Install(set_output_area(World, new_area))
    /\ ret' = TRUE
    /\ UNCHANGED <<active_window, is_resizing, gaps, calls>>

\* OutputContent's constructor, and the tree of a workspace as it is created
OutputInit ==
    /\ area \in OutputAreas
    /\ gaps \in GapConfigs
    /\ parent = [n \in NodeIds |-> NoNode]
    /\ children = [l \in LaneIds |-> <<>>]
    /\ direction = [l \in LaneIds |-> DefaultSplit]
    /\ logical_area = [n \in NodeIds |-> IF n = Root THEN area ELSE NoRect]
    /\ next_logical_area = [n \in NodeIds |-> NoRect]
    /\ next_state = [w \in Windows |-> NoState]
    /\ before_shown_state = [w \in Windows |-> NoState]
    /\ window_state = [w \in Windows |-> "restored"]
    /\ clip_area = [w \in Windows |-> NoRect]
    /\ rectangle = [w \in Windows |-> NoRect]
    /\ active_window = NoNode
    /\ is_resizing = FALSE
    /\ steps = 0
    /\ calls = <<>>
    /\ ret = TRUE
    /\ placement = NoPlacement
    /\ floating_windows = <<>>
    /\ selected = NoSelection
    /\ hidden_workspaces = {}
    /\ occupied = {}
    /\ animations = {}
    /\ switched = NoSwitch
    /\ host_zones = {}
    /\ application_zone_list = <<>>
    /\ recalculated = FALSE

\* the output with its first workspace listed and active
Init ==
    /\ OutputInit
    /\ workspaces = <<FirstWorkspace>>
    /\ active_workspace = FirstWorkspace
    /\ lookup = NoLookup

Next ==
    \/ \E w \in Windows : advise_new_window(w)
    \/ \E w \in Windows : advise_delete_window(w)
    \/ \E w \in Windows : advise_focus_gained(w)
    \/ \E w \in Windows, st \in RequestedStates : handle_modify_window(w, st)
    \/ \E d \in Directions : resize_active_window(d)
    \/ \E d \in Directions : select(d)
    \/ \E d \in Directions : move_active_window(d)
    \/ request_vertical
    \/ request_horizontal
    \/ toggle_resize_mode
    \/ output_toggle_fullscreen
    \/ \E r \in OutputAreas : update_area(r)

Spec == Init /\ [][Next]_vars

(***************************************************************************)
(* WorkspaceSpec: the output's list of workspaces and the lookup of the    *)
(* active one.  The trees of the workspaces stay out of it; an operation   *)
(* that asks for the active workspace is followed up to the lookup.        *)
(***************************************************************************)
\* a variant of get_active_workspace that falls back to the first workspace
get_active_workspace_or_first(ws, act) ==
    IF \E i \in 1..Len(ws) : ws[i] = act
    THEN [thrown |-> FALSE,
          at |-> CHOOSE i \in 1..Len(ws) : ws[i] = act /\ \A j \in 1..(i - 1) : ws[j] # act]
    ELSE [thrown |-> Len(ws) = 0, at |-> IF Len(ws) = 0 THEN 0 ELSE 1]

\* the position of the first listed workspace with the active id, or the
\* std::runtime_error thrown when there is none
get_active_workspace(ws, act) ==
    IF \E i \in 1..Len(ws) : ws[i] = act
    THEN [thrown |-> FALSE,
          at |-> CHOOSE i \in 1..Len(ws) : ws[i] = act /\ \A j \in 1..(i - 1) : ws[j] # act]
    ELSE [thrown |-> TRUE, at |-> 0]

get_active_tree(ws, act) == get_active_workspace(ws, act)

\* the workspace manager creates a workspace on this output; it hands out an
\* id only once
advise_new_workspace(k) ==
    /\ \A i \in 1..Len(workspaces) : workspaces[i] # k
    /\ workspaces' = Append(workspaces, k)
    /\ UNCHANGED <<active_workspace, lookup>>

\* the list without its first workspace of id k
erase_workspace(ws, k) ==
    IF \E i \in 1..Len(ws) : ws[i] = k
    THEN RemoveAt(ws, CHOOSE i \in 1..Len(ws) : ws[i] = k /\ \A j \in 1..(i - 1) : ws[j] # k)
    ELSE ws

advise_workspace_deleted(k) ==
    /\ workspaces' = erase_workspace(workspaces, k)
    /\ UNCHANGED <<active_workspace, lookup>>

\* the workspace manager activates a workspace it has created on this output.
\* The workspace left behind is deleted through the workspace manager when it
\* holds no window (empty).
advise_workspace_active(key, empty) ==
    /\ \E i \in 1..Len(workspaces) : workspaces[i] = key
    /\ IF active_workspace = key
       THEN UNCHANGED <<workspaces, active_workspace>>
       ELSE /\ active_workspace' = key
            /\ workspaces' = IF empty
                             THEN erase_workspace(workspaces, active_workspace)
                             ELSE workspaces
    /\ UNCHANGED lookup

\* an operation that needs the active workspace or its tree asks for it
ask_active_workspace(op) ==
    /\ lookup' = [op |-> op,
                  thrown |-> get_active_tree(workspaces, active_workspace).thrown,
                  at |-> get_active_tree(workspaces, active_workspace).at]
    /\ UNCHANGED <<workspaces, active_workspace>>

WsInit ==
    /\ OutputInit
    /\ workspaces = <<>>
    /\ active_workspace = NoWorkspace
    /\ lookup = NoLookup

WsFrame ==
    UNCHANGED <<treeVars, leafVars, hostVars, active_window, is_resizing, area, gaps,
                steps, calls, ret, placement, floatVars, switchVars, zoneVars>>

WsNext ==
    \/ \E k \in WorkspaceIds : advise_new_workspace(k) /\ WsFrame
    \/ \E k \in WorkspaceIds : advise_workspace_deleted(k) /\ WsFrame
    \/ \E k \in WorkspaceIds, empty \in BOOLEAN : advise_workspace_active(k, empty) /\ WsFrame
    \/ \E op \in ActiveWorkspaceOperations : ask_active_workspace(op) /\ WsFrame

WorkspaceSpec == WsInit /\ [][WsNext]_vars

(***************************************************************************)
(* LeafSpec: the methods of one LeafNode, called one at a time.  The leaf  *)
(* under test is active_window, a leaf of a lane of 1..MaxWindows leaves   *)
(* that insert_node and a commit pass have laid out.  Here the host's clip *)
(* and rectangle are tracked, and calls holds the host calls of the last   *)
(* method.                                                                 *)
(***************************************************************************)
\* a workspace's tree right after construction: an empty root lane
EmptyWorld(r) ==
    [parent |-> [n \in NodeIds |-> NoNode],
     children |-> [l \in LaneIds |-> <<>>],
     direction |-> [l \in LaneIds |-> DefaultSplit],
     la |-> [n \in NodeIds |-> IF n = Root THEN r ELSE NoRect],
     nla |-> [n \in NodeIds |-> NoRect],
     ns |-> [w \in Windows |-> NoState],
     bss |-> [w \in Windows |-> NoState],
     st |-> [w \in Windows |-> "restored"],
     clip |-> [w \in Windows |-> NoRect],
     rect |-> [w \in Windows |-> NoRect],
     calls |-> <<>>]

\* the root lane after windows 1..n were inserted one after the other
\* one more method is called on the leaf
LeafTick ==
    /\ steps < MaxLeafSteps
    /\ steps' = steps + 1
    /\ UNCHANGED <<wsVars, placement, floatVars, switchVars, zoneVars>>

RECURSIVE flat_lane(_, _)
flat_lane(W, n) ==
    IF n = 0
    THEN W
    ELSE commit_pass(insert_node(flat_lane(W, n - 1), Root, n, n))

LeafInstall(W) ==
    /\ parent' = W.parent
    /\ children' = W.children
    /\ direction' = W.direction
    /\ logical_area' = W.la
    /\ next_logical_area' = W.nla
    /\ next_state' = W.ns
    /\ before_shown_state' = W.bss
    /\ window_state' = W.st
    /\ clip_area' = W.clip
    /\ rectangle' = W.rect
    /\ calls' = W.calls
    /\ UNCHANGED <<is_resizing, area, gaps, ret>>

\* the fixture: n windows are inserted into the empty root lane of the given
\* direction, each insertion committed, and leaf w is put under test
lay_out(n, dir, w) ==
    /\ LeafTick
    /\ children[Root] = <<>>
    /\ w \in 1..n
    /\ LeafInstall(flat_lane([World EXCEPT !.direction[Root] = dir], n))
    /\ active_window' = w

\* the leaf under test and what get_neighbors() reports for it
Leaf == LeafOf(World, active_window)
Neighbors == get_neighbors(World, active_window)

\* the areas a layout pass may stage for the leaf
StagedAreas ==
    {area,
     Rect(area.x, area.y, area.w \div 2, area.h),
     Rect(area.x + area.w \div 4, area.y + area.h \div 2, area.w \div 4, area.h \div 2)}

leaf_set_logical_area(r) ==
    /\ LeafTick
    /\ active_window # NoNode
    /\ UNCHANGED active_window
    /\ LeafInstall(PutLeaf(World, active_window, set_logical_area(Leaf, r)))

leaf_show ==
    /\ LeafTick
    /\ active_window # NoNode
    /\ UNCHANGED active_window
    /\ LeafInstall(PutLeaf(World, active_window, show(Leaf)))

leaf_hide ==
    /\ LeafTick
    /\ active_window # NoNode
    /\ UNCHANGED active_window
    /\ LeafInstall(PutLeaf(World, active_window, hide(Leaf)))

leaf_toggle_fullscreen ==
    /\ LeafTick
    /\ active_window # NoNode
    /\ UNCHANGED active_window
    /\ LeafInstall(PutLeaf(World, active_window, toggle_fullscreen(Leaf)))

leaf_constrain ==
    /\ LeafTick
    /\ active_window # NoNode
    /\ UNCHANGED active_window
    /\ LeafInstall(PutLeaf(World, active_window, constrain(Leaf, Neighbors, gaps)))

leaf_commit_changes ==
    /\ LeafTick
    /\ active_window # NoNode
    /\ UNCHANGED active_window
    /\ LeafInstall(PutLeaf(World, active_window, commit_changes(Leaf, Neighbors, gaps)))

\* tools.modify_window: the host applies a state the client asked for
host_modify_window(st) ==
    /\ LeafTick
    /\ active_window # NoNode
    /\ UNCHANGED active_window
    /\ LeafInstall([World EXCEPT !.st[active_window] = st])

LeafInit == Init

LeafNext ==
    \/ \E n \in 1..MaxWindows, dir \in LayoutDirections, w \in Windows : lay_out(n, dir, w)
    \/ \E r \in StagedAreas : leaf_set_logical_area(r)
    \/ leaf_show
    \/ leaf_hide
    \/ leaf_toggle_fullscreen
    \/ leaf_constrain
    \/ leaf_commit_changes
    \/ \E st \in RequestedStates : host_modify_window(st)

LeafSpec == LeafInit /\ [][LeafNext]_vars

(***************************************************************************)
(* PlacementSpec: confirm_placement_on_display asked about the windows of  *)
(* a laid-out lane and about floating windows.                             *)
(***************************************************************************)
\* the rectangles the host proposes for a window
ProposedRects ==
    {area,
     Rect(area.x, area.y, area.w \div 2, area.h \div 2),
     Rect(area.x + 10, area.y + 10, 100, 100)}

\* TilingWindowTree::confirm_placement_on_display: a window that is to be
\* restored is placed on its leaf's visible area; a placement for any other
\* state is left as proposed
tree_confirm_placement_on_display(W, w, new_state, new_placement) ==
    IF new_state = "restored"
    THEN get_visible_area(LeafOf(W, w), get_neighbors(W, w), gaps)
    ELSE new_placement

\* a variant of the placement confirmation that answers with the rectangle
\* the tree or the floating window manager adjusted
placement_adjusted(type, new_placement, by_tree, by_floating) ==
    IF type = "tiled" THEN by_tree
    ELSE IF type = "floating" THEN by_floating
    ELSE new_placement

\* what OutputContent::confirm_placement_on_display returns: by_tree is
\* modified_placement after the tree's call, by_floating the floating window
\* manager's answer
placement_returned(type, new_placement, by_tree, by_floating) ==
    IF type = "floating" THEN by_floating ELSE new_placement

confirm_placement_on_display(w, type, new_state, new_placement, by_floating) ==
    LET by_tree == IF type = "tiled"
                   THEN tree_confirm_placement_on_display(World, w, new_state, new_placement)
                   ELSE new_placement
    IN  /\ (type = "tiled") = Tiled(w)
        /\ placement' = [window |-> w, type |-> type, state |-> new_state,
                         proposed |-> new_placement, tree |-> by_tree,
                         floating |-> IF type = "floating" THEN by_floating ELSE NoRect,
                         returned |-> placement_returned(type, new_placement, by_tree,
                                                         by_floating)]
        /\ UNCHANGED <<treeVars, leafVars, hostVars, active_window, is_resizing, area,
                       gaps, steps, calls, ret, wsVars, floatVars, switchVars, zoneVars>>

PlacementNext ==
    \/ \E n \in 1..MaxWindows, dir \in LayoutDirections, w \in Windows : lay_out(n, dir, w)
    \/ \E w \in Windows, type \in WindowTypes, st \in RequestedStates,
          r \in ProposedRects, fr \in ProposedRects :
            confirm_placement_on_display(w, type, st, r, fr)

PlacementSpec == Init /\ [][PlacementNext]_vars

(***************************************************************************)
(* FloatSpec: the active workspace with its tiling tree and its list of    *)
(* floating windows.  Windows are created tiled, float and tile again by   *)
(* request_toggle_active_float, and are picked by the pointer.  An entry   *)
(* of floating_windows is the window with the rectangle the host holds for *)
(* it.                                                                     *)
(***************************************************************************)
\* the rectangles the floating window manager places a window on
FloatingPlacements ==
    {Rect(area.x, area.y, area.w \div 2, area.h \div 2),
     Rect(area.x + 20, area.y + 20, area.w \div 2, area.h \div 2)}

\* the pointer positions tried
Points ==
    {<<area.x + 10, area.y + 10>>,
     <<area.x + 30, area.y + 30>>,
     <<area.x + area.w \div 2, area.y + area.h \div 2>>,
     <<area.x + area.w - 10, area.y + area.h - 10>>}

\* geom::Rectangle::contains(Point): the right and bottom edges are outside
contains(r, x, y) ==
    /\ r.w > 0 /\ r.h > 0
    /\ r.x <= x /\ x < r.x + r.w
    /\ r.y <= y /\ y < r.y + r.h

FloatingIds(list) == {list[i].window : i \in DOMAIN list}
Floating(w) == w \in FloatingIds(floating_windows)
Managed(w) == Tiled(w) \/ Floating(w)

has_floating_window(list, w) == w \in FloatingIds(list)
add_floating_window(list, w, r) == Append(list, [window |-> w, area |-> r])
remove_floating_window(list, w) == SelectSeq(list, LAMBDA e : e.window # w)

\* the leaves below node n, left to right, depth first
RECURSIVE leaves_in_preorder(_, _)
RECURSIVE leaves_of_children(_, _, _)
leaves_of_children(W, kids, i) ==
    IF i > Len(kids)
    THEN <<>>
    ELSE leaves_in_preorder(W, kids[i]) \o leaves_of_children(W, kids, i + 1)

leaves_in_preorder(W, n) ==
    IF n \in Windows THEN <<n>> ELSE leaves_of_children(W, W.children[n], 1)

\* TilingWindowTree::select_window_from_point: the first leaf in pre-order
\* whose visible area contains the point
tree_select_window_from_point(W, x, y) ==
    LET hits == SelectSeq(leaves_in_preorder(W, Root),
                          LAMBDA w : contains(get_visible_area(LeafOf(W, w),
                                                               get_neighbors(W, w), gaps),
                                              x, y))
    IN  IF hits = <<>> THEN NoNode ELSE hits[1]

\* the loop of select_window_from_point over the floating windows: Returned
\* when the active window is met under the point, else the index kept last
\* (0 when no floating window is under the point)
Returned == -1

\* a variant of the loop that keeps the first floating window under the point
RECURSIVE scan_floating_first(_, _, _, _, _, _)
scan_floating_first(list, act, x, y, i, floating_index) ==
    IF i > Len(list)
    THEN floating_index
    ELSE IF list[i].window = act /\ contains(list[i].area, x, y)
    THEN Returned
    ELSE IF contains(list[i].area, x, y) /\ floating_index = 0
    THEN scan_floating_first(list, act, x, y, i + 1, i)
    ELSE scan_floating_first(list, act, x, y, i + 1, floating_index)

RECURSIVE scan_floating(_, _, _, _, _, _)
scan_floating(list, act, x, y, i, floating_index) ==
    IF i > Len(list)
    THEN floating_index
    ELSE IF list[i].window = act /\ contains(list[i].area, x, y)
    THEN Returned
    ELSE IF contains(list[i].area, x, y)
    THEN scan_floating(list, act, x, y, i + 1, i)
    ELSE scan_floating(list, act, x, y, i + 1, floating_index)

\* the window select_window_from_point hands to tools.select_active_window,
\* NoNode when it makes no such call
window_to_select(W, list, act, x, y) ==
    IF has_fullscreen_window(W)
    THEN NoNode
    ELSE LET floating_index == scan_floating(list, act, x, y, 1, 0)
             node == tree_select_window_from_point(W, x, y)
         IN  IF floating_index = Returned THEN NoNode
             ELSE IF floating_index > 0 THEN list[floating_index].window
             ELSE IF node # NoNode /\ node # act THEN node
             ELSE NoNode

\* one more request is handled on the workspace
FloatTick ==
    /\ steps < MaxFloatSteps
    /\ steps' = steps + 1
    /\ UNCHANGED <<wsVars, placement, switchVars, zoneVars>>

\* a tileable window is created: allocate_position, advise_new_window and
\* handle_window_ready; the host then focuses it
create_window(w) ==
    /\ FloatTick
    /\ ~Managed(w)
    /\ \A v \in Windows : v < w => Managed(v)
    /\ Install(tree_advise_new_window(World, active_window, w))
    /\ active_window' = w
    /\ ret' = TRUE
    /\ UNCHANGED <<is_resizing, area, gaps, calls, floatVars>>

\* advise_delete_window: a tiled window leaves its tree, a floating window
\* the list of the workspace that has it; the host's active window is gone
\* with it
delete_window(w) ==
    /\ FloatTick
    /\ Managed(w)
    /\ IF Tiled(w)
       THEN /\ InstallResult(tree_advise_delete_window(World, active_window, is_resizing, w))
            /\ UNCHANGED floatVars
       ELSE /\ floating_windows' = remove_floating_window(floating_windows, w)
            /\ active_window' = IF active_window = w THEN NoNode ELSE active_window
            /\ UNCHANGED <<treeVars, leafVars, hostVars, is_resizing, selected>>
    /\ ret' = TRUE
    /\ UNCHANGED <<area, gaps, calls>>

\* advise_focus_gained of a tiled or floating window
focus_window(w) ==
    /\ FloatTick
    /\ Managed(w)
    /\ active_window' = w
    /\ ret' = TRUE
    /\ UNCHANGED <<treeVars, leafVars, hostVars, is_resizing, area, gaps, calls, floatVars>>

\* toggle_fullscreen on the workspace's tree
workspace_toggle_fullscreen ==
    /\ FloatTick
    /\ InstallResult(try_toggle_active_fullscreen(World, active_window, is_resizing))
    /\ ret' = TRUE
    /\ UNCHANGED <<area, gaps, calls, floatVars>>

\* a variant of the toggle that leaves a floated window on its leaf
float_keeping_leaf(W, act, rz, w) == TreeResult(W, act, rz, TRUE)

\* the tree's part of floating a tiled window
float_leaving_tree(W, act, rz, w) == tree_advise_delete_window(W, act, rz, w)

\* request_toggle_active_float: a tiled window leaves its tree and joins the
\* floating windows of the active workspace at the place the floating window
\* manager gives it; a floating window is tiled by add_immediately and
\* leaves the list; the window stays selected
request_toggle_active_float(r) ==
    /\ FloatTick
    /\ IF active_window = NoNode \/ ~Managed(active_window)
       THEN UNCHANGED <<treeVars, leafVars, hostVars, active_window, is_resizing,
                        floating_windows>>
       ELSE IF Tiled(active_window)
       THEN IF has_fullscreen_window(World)
            THEN UNCHANGED <<treeVars, leafVars, hostVars, active_window, is_resizing,
                             floating_windows>>
            ELSE /\ Install(float_leaving_tree(World, active_window, is_resizing,
                                               active_window).W)
                 /\ floating_windows' =
                        add_floating_window(floating_windows, active_window, r)
                 /\ UNCHANGED <<active_window, is_resizing>>
       ELSE /\ Install(tree_advise_new_window(World, active_window, active_window))
            /\ floating_windows' = remove_floating_window(floating_windows, active_window)
            /\ UNCHANGED <<active_window, is_resizing>>
    /\ ret' = TRUE
    /\ UNCHANGED <<area, gaps, calls, selected>>

\* select_window_from_point: the window picked, if any, is selected through
\* the host and becomes the active window
select_window_from_point(x, y) ==
    LET window == window_to_select(World, floating_windows, active_window, x, y)
    IN  /\ FloatTick
        /\ selected' = [x |-> x, y |-> y, window |-> window]
        /\ active_window' = IF window # NoNode THEN window ELSE active_window
        /\ ret' = TRUE
        /\ UNCHANGED <<treeVars, leafVars, hostVars, is_resizing, area, gaps, calls,
                       floating_windows>>

FloatNext ==
    \/ \E w \in Windows : create_window(w)
    \/ \E w \in Windows : delete_window(w)
    \/ \E w \in Windows : focus_window(w)
    \/ workspace_toggle_fullscreen
    \/ \E r \in FloatingPlacements : request_toggle_active_float(r)
    \/ \E p \in Points : select_window_from_point(p[1], p[2])

FloatSpec == Init /\ [][FloatNext]_vars

(***************************************************************************)
(* SwitchSpec: workspace switches on the output.  advise_workspace_active  *)
(* hands the animator two callbacks; the animator calls them with          *)
(* is_complete later, while further switches may have been made.           *)
(***************************************************************************)
Listed(ws, k) == \E i \in 1..Len(ws) : ws[i] = k

\* one call advise_workspace_active makes on a collaborator
Effect(op, k) == [op |-> op, workspace |-> k]

\* the workspace `from` of advise_workspace_active: the listed workspace of
\* the active id, NoWorkspace standing for nullptr
departed_workspace(ws, act) == IF Listed(ws, act) THEN act ELSE NoWorkspace

\* from != nullptr, its tree is_empty() and its floating windows are empty()
is_departed_deleted(from, occ) == from # NoWorkspace /\ from \notin occ

\* a variant of the switch that deletes the departed workspace first
calls_of_switch_deleting_first(from, key, deleted) ==
    (IF deleted THEN <<Effect("delete_workspace", from)>> ELSE <<>>)
        \o <<Effect("workspace_move_to", key), Effect("show", key),
             Effect("set_active", key)>>

\* the calls of advise_workspace_active when key is listed and not active
calls_of_switch(from, key, deleted) ==
    <<Effect("workspace_move_to", key), Effect("show", key), Effect("set_active", key)>>
        \o (IF deleted THEN <<Effect("delete_workspace", from)>> ELSE <<>>)

\* one more event is handled by the output
SwitchTick ==
    /\ steps < MaxSwitchSteps
    /\ steps' = steps + 1
    /\ UNCHANGED <<treeVars, leafVars, hostVars, active_window, is_resizing, area, gaps,
                   calls, ret, placement, floatVars, zoneVars>>

workspace_created(k) ==
    /\ SwitchTick
    /\ advise_new_workspace(k)
    /\ UNCHANGED switchVars

workspace_deleted(k) ==
    /\ SwitchTick
    /\ Listed(workspaces, k)
    /\ advise_workspace_deleted(k)
    /\ UNCHANGED switchVars

\* windows are created on or deleted from a listed workspace: it gets its
\* first window (b) or loses its last one
workspace_windows(k, b) ==
    /\ SwitchTick
    /\ Listed(workspaces, k)
    /\ (k \in occupied) # b
    /\ occupied' = IF b THEN occupied \cup {k} ELSE occupied \ {k}
    /\ UNCHANGED <<wsVars, hidden_workspaces, animations, switched>>

\* advise_workspace_active(key) with its calls on the animator, on the
\* destination workspace and on the workspace manager
workspace_active(key) ==
    LET from == departed_workspace(workspaces, active_workspace)
        deleted == is_departed_deleted(from, occupied)
    IN  /\ SwitchTick
        /\ advise_workspace_active(key, deleted)
        /\ IF active_workspace = key
           THEN /\ switched' = [key |-> key, ret |-> TRUE, effects |-> <<>>]
                /\ UNCHANGED <<hidden_workspaces, animations>>
           ELSE /\ animations' = animations \cup {[from |-> from, to |-> key]}
                /\ hidden_workspaces' = hidden_workspaces \ {key}
                /\ switched' = [key |-> key, ret |-> TRUE,
                                effects |-> calls_of_switch(from, key, deleted)]
        /\ UNCHANGED occupied

\* the animator calls both callbacks of a switch with is_complete: the
\* departed workspace, if there was one, is hidden
animation_completes(a) ==
    /\ SwitchTick
    /\ a \in animations
    /\ animations' = animations \ {a}
    /\ hidden_workspaces' = IF a.from # NoWorkspace
                            THEN hidden_workspaces \cup {a.from}
                            ELSE hidden_workspaces
    /\ UNCHANGED <<wsVars, occupied, switched>>

SwitchNext ==
    \/ \E k \in WorkspaceIds : workspace_created(k)
    \/ \E k \in WorkspaceIds : workspace_deleted(k)
    \/ \E k \in WorkspaceIds, b \in BOOLEAN : workspace_windows(k, b)
    \/ \E k \in WorkspaceIds : workspace_active(k)
    \/ \E a \in animations : animation_completes(a)

SwitchSpec == Init /\ [][SwitchNext]_vars

(***************************************************************************)
(* ZoneSpec: the host tells the output about its application zones.  A     *)
(* zone is its id with its extents; miral::Zone::operator== compares both. *)
(***************************************************************************)
ZoneIds == 1..MaxZones

\* the extents the host gives a zone: the output area, an area around it,
\* and the output area without a panel at its top
ZoneExtents ==
    {area,
     Rect(area.x - 10, area.y - 10, area.w + 20, area.h + 20),
     Rect(area.x, area.y + 20, area.w, area.h - 20)}

Zone(id, extents) == [id |-> id, extents |-> extents]
Zones == {Zone(id, extents) : id \in ZoneIds, extents \in ZoneExtents}

ZoneListed(list, z) == \E i \in 1..Len(list) : list[i] = z

\* advise_application_zone_create: the new list and whether the trees were
\* recalculated
zone_create(list, z, output_area) ==
    IF Contains(z.extents, output_area)
    THEN [list |-> Append(list, z), recalculated |-> TRUE]
    ELSE [list |-> list, recalculated |-> FALSE]

\* advise_application_zone_update: the first zone equal to original is
\* overwritten
zone_update(list, updated, original) ==
    IF ZoneListed(list, original)
    THEN LET at == CHOOSE i \in 1..Len(list) :
                       list[i] = original /\ \A j \in 1..(i - 1) : list[j] # original
         IN  [list |-> [i \in 1..Len(list) |-> IF i = at THEN updated ELSE list[i]],
              recalculated |-> TRUE]
    ELSE [list |-> list, recalculated |-> FALSE]

\* std::remove(begin, end, z): the elements other than z are copied to the
\* front in their order, the vector keeps its length and its last elements
\* stay as they were (miral::Zone is copied, not moved from); new_end is the
\* place past the kept elements
std_remove(list, z) ==
    LET kept == SelectSeq(list, LAMBDA e : e # z)
    IN  [list |-> [i \in 1..Len(list) |-> IF i <= Len(kept) THEN kept[i] ELSE list[i]],
         new_end |-> Len(kept) + 1]

\* advise_application_zone_delete: std::remove without erase
zone_delete(list, z) ==
    LET removed == std_remove(list, z)
    IN  [list |-> removed.list, recalculated |-> removed.new_end # Len(list) + 1]

\* TilingWindowTree::recalculate_root_node_area: the root takes the extents
\* of the output's first application zone and redistributes
recalculate_root_node_area(W, zones) ==
    IF zones = <<>> THEN W ELSE commit_pass(set_node_area(W, Root, zones[1].extents))

\* one more zone event is handled
ZoneTick ==
    /\ steps < MaxZoneSteps
    /\ steps' = steps + 1
    /\ UNCHANGED <<active_window, is_resizing, area, gaps, calls, ret, wsVars, placement,
                   floatVars, switchVars>>

\* the handler's outcome is taken over: the list, and the root area of the
\* workspace's tree when the handler recalculates
ZoneInstall(r) ==
    /\ application_zone_list' = r.list
    /\ recalculated' = r.recalculated
    /\ IF r.recalculated
       THEN Install(recalculate_root_node_area(World, r.list))
       ELSE UNCHANGED <<treeVars, leafVars, hostVars>>

\* the host creates a zone
advise_application_zone_create(z) ==
    /\ ZoneTick
    /\ \A h \in host_zones : h.id # z.id
    /\ host_zones' = host_zones \cup {z}
    /\ ZoneInstall(zone_create(application_zone_list, z, area))

\* the host changes the extents of one of its zones
advise_application_zone_update(updated, original) ==
    /\ ZoneTick
    /\ original \in host_zones
    /\ updated.id = original.id
    /\ updated # original
    /\ host_zones' = (host_zones \ {original}) \cup {updated}
    /\ ZoneInstall(zone_update(application_zone_list, updated, original))

\* the host deletes one of its zones
advise_application_zone_delete(z) ==
    /\ ZoneTick
    /\ z \in host_zones
    /\ host_zones' = host_zones \ {z}
    /\ ZoneInstall(zone_delete(application_zone_list, z))

ZoneNext ==
    \/ \E z \in Zones : advise_application_zone_create(z)
    \/ \E u \in Zones, o \in Zones : advise_application_zone_update(u, o)
    \/ \E z \in Zones : advise_application_zone_delete(z)

ZoneSpec == Init /\ [][ZoneNext]_vars

(***************************************************************************)
(* Properties of LeafNode, checked under LeafSpec.                         *)
(***************************************************************************)
\* ceil(gap / 2), stated without a division
CeilHalf(gap) == CHOOSE h \in 0..gap : 2 * h >= gap /\ 2 * h <= gap + 1

\* what side d of a leaf with neighbor flags nb has to lose
Margin(nb, d) ==
    IF nb[d]
    THEN CeilHalf(IF Axis(d) = "horizontal" THEN gaps[1] ELSE gaps[2])
    ELSE 0

VisibleAreaOf(w) == get_visible_area(LeafOf(World, w), get_neighbors(World, w), gaps)

\* two leaves side by side in a 1920x1080 root, gaps 10/10
TwoLeavesIn1920 ==
    /\ area = Rect(0, 0, 1920, 1080)
    /\ gaps = <<10, 10>>
    /\ children[Root] = <<1, 2>>
    /\ direction[Root] = "horizontal"

\* C1: for every leaf and every combination of neighbor flags, the visible
\* area lies in the committed logical area and each side is cut by ceil(gap/2)
\* exactly when that side has a neighbor (gap_x for left/right, gap_y for
\* up/down), so the sizes differ by the sum of the cuts; with gaps 10/10 two
\* leaves laid out side by side in a 1920x1080 root are 960x1080 each and
\* their visible areas are 955x1080 at (0,0) and 955x1080 at (965,0).
VisibleAreaShrinksNeighborSides ==
    /\ \A w \in Leaves(World), nb \in [Directions -> BOOLEAN] :
          LET la == logical_area[w]
              v == get_visible_area(LeafOf(World, w), nb, gaps)
          IN  /\ Contains(la, v)
              /\ v.x - la.x = Margin(nb, "left")
              /\ (la.x + la.w) - (v.x + v.w) = Margin(nb, "right")
              /\ v.y - la.y = Margin(nb, "up")
              /\ (la.y + la.h) - (v.y + v.h) = Margin(nb, "down")
              /\ la.w - v.w = Margin(nb, "left") + Margin(nb, "right")
              /\ la.h - v.h = Margin(nb, "up") + Margin(nb, "down")
    /\ (TwoLeavesIn1920 /\ steps = 1) =>
          /\ logical_area[1] = Rect(0, 0, 960, 1080)
          /\ logical_area[2] = Rect(960, 0, 960, 1080)
    /\ (/\ TwoLeavesIn1920
        /\ logical_area[1] = Rect(0, 0, 960, 1080)
        /\ logical_area[2] = Rect(960, 0, 960, 1080)) =>
          /\ VisibleAreaOf(1) = Rect(0, 0, 955, 1080)
          /\ VisibleAreaOf(2) = Rect(965, 0, 955, 1080)

\* two leaves side by side right after the layout, gaps 10/10
TwoLeavesLaidOut ==
    /\ TwoLeavesIn1920
    /\ steps = 1
    /\ get_neighbors(World, 1)["right"]
    /\ get_neighbors(World, 2)["left"]

\* C8: set_logical_area(r) only stages r: get_logical_area() then returns r
\* while the committed area, the visible area and the host's rectangle, clip
\* and state stay as they were and no host call is made; no method other than
\* commit_changes() changes the committed area or the host's rectangle; after
\* commit_changes() the committed area is the staged one and none is pending.
StagingDefersToCommit ==
    [][LET w == active_window
       IN  /\ \A r \in StagedAreas :
                 leaf_set_logical_area(r) =>
                    /\ get_logical_area([la |-> logical_area'[w],
                                         nla |-> next_logical_area'[w]]) = r
                    /\ logical_area' = logical_area
                    /\ get_visible_area([la |-> logical_area'[w]], Neighbors, gaps)
                          = get_visible_area(Leaf, Neighbors, gaps)
                    /\ rectangle' = rectangle
                    /\ clip_area' = clip_area
                    /\ window_state' = window_state
                    /\ calls' = <<>>
           /\ (w # NoNode /\ ~leaf_commit_changes) =>
                 /\ logical_area' = logical_area
                 /\ rectangle' = rectangle
           /\ leaf_commit_changes =>
                 /\ next_logical_area'[w] = NoRect
                 /\ logical_area'[w] = get_logical_area(Leaf)
      ]_vars

\* an area differing from the committed one is staged on the leaf under test
AreaStaged ==
    /\ active_window # NoNode
    /\ next_logical_area[active_window] # NoRect
    /\ next_logical_area[active_window] # logical_area[active_window]
    /\ rectangle[active_window] = VisibleAreaOf(active_window)

\* the host call constrain() makes for a window in state st
ConstrainCall(st, visible) ==
    IF is_window_fullscreen(st)
    THEN Call("noclip", NoState, NoRect, NoRect)
    ELSE Call("clip", NoState, NoRect, visible)

\* the host calls of commit_changes() on the leaf under test, the geometry
\* being given to the host when `geometry` holds
CommitCalls(geometry) ==
    LET L == Leaf
        st1 == IF L.ns # NoState THEN L.ns ELSE L.st
        previous == get_visible_area(L, Neighbors, gaps)
        current == get_visible_area([L EXCEPT !.la = get_logical_area(L)], Neighbors, gaps)
    IN  (IF L.ns # NoState
         THEN <<Call("change_state", L.ns, NoRect, NoRect), ConstrainCall(st1, previous)>>
         ELSE <<>>)
        \o (IF L.nla # NoRect /\ geometry
            THEN <<Call("set_rectangle", NoState, previous, current),
                   ConstrainCall(st1, current)>>
            ELSE <<>>)

\* the window of the leaf under test is fullscreen once its pending state is applied
FullscreenAfterState ==
    is_window_fullscreen(IF Leaf.ns # NoState THEN Leaf.ns ELSE Leaf.st)

\* C9 as stated: commit_changes() gives the host a pending state (change_state,
\* then constrain) and then a pending geometry (set_rectangle from the previous
\* visible area to the new one, then constrain), and clears both pending fields.
CommitAppliesStateThenGeometry ==
    [][leaf_commit_changes =>
          /\ calls' = CommitCalls(TRUE)
          /\ next_state'[active_window] = NoState
          /\ next_logical_area'[active_window] = NoRect
      ]_vars

\* C9: commit_changes() gives the host a pending state (change_state, then
\* constrain on the area still committed) and then, unless the window is
\* fullscreen by then, a pending geometry (set_rectangle from the previous
\* visible area to the new one, then constrain); for a fullscreen window the
\* committed area is replaced without any host call and the host's rectangle
\* stays; both pending fields are cleared.
CommitSkipsGeometryWhenFullscreen ==
    [][leaf_commit_changes =>
          LET w == active_window
              L == Leaf
              current == get_visible_area([L EXCEPT !.la = get_logical_area(L)],
                                          Neighbors, gaps)
          IN  /\ calls' = CommitCalls(~FullscreenAfterState)
              /\ next_state'[w] = NoState
              /\ next_logical_area'[w] = NoRect
              /\ window_state'[w] = IF L.ns # NoState THEN L.ns ELSE L.st
              /\ logical_area'[w] = get_logical_area(L)
              /\ rectangle'[w] = IF L.nla # NoRect /\ ~FullscreenAfterState
                                 THEN current ELSE L.rect
      ]_vars

\* a state and a geometry were committed together: four host calls
StateAndGeometryCommitted ==
    /\ Len(calls) = 4
    /\ calls[1].call = "change_state"
    /\ calls[3].call = "set_rectangle"
    /\ calls[3].from # calls[3].to


(***************************************************************************)
(* Properties of the tree and its commands, checked under Spec.            *)
(***************************************************************************)
\* where a rectangle starts along an axis
AxisStart(r, a) == IF a = "horizontal" THEN r.x ELSE r.y

Across(a) == IF a = "horizontal" THEN "vertical" ELSE "horizontal"

\* the children of lane l tile it: their sizes along the axis sum to the
\* lane's, each starts where the one before ends, the first where the lane
\* starts, and each spans the lane across the axis
TilesIn(W, l) ==
    LET ks == W.children[l]
        a == W.direction[l]
        A == W.la[l]
        R(i) == W.la[ks[i]]
    IN  /\ SumSeq([i \in 1..Len(ks) |-> AxisLen(R(i), a)]) = AxisLen(A, a)
        /\ AxisStart(R(1), a) = AxisStart(A, a)
        /\ \A i \in 1..(Len(ks) - 1) :
              AxisStart(R(i + 1), a) = AxisStart(R(i), a) + AxisLen(R(i), a)
        /\ \A i \in 1..Len(ks) :
              /\ AxisStart(R(i), Across(a)) = AxisStart(A, Across(a))
              /\ AxisLen(R(i), Across(a)) = AxisLen(A, Across(a))

Tiles(l) == TilesIn(World, l)

\* the floors of lane l's children fit into the lane's size along its axis
FloorsFit(l) ==
    ~floors_exceed(AxisLen(logical_area[l], direction[l]), child_mins(World, l))

\* the output is large enough for the floors of any lane of MaxWindows leaves
OutputFitsFloors ==
    /\ area.w >= MaxWindows * get_min_width
    /\ area.h >= MaxWindows * get_min_height

NoLaneBelowTwoChildren ==
    Leaves(World) # {} => \A l \in Lanes(World) : Len(children[l]) >= 2

\* C3: no lane other than the root has fewer than two children; the root
\* lane persists with one child or none.
NoInnerLaneBelowTwoChildren ==
    \A l \in Lanes(World) \ {Root} : Len(children[l]) >= 2

\* window 1 was deleted and an inner lane is still there
InnerLaneAfterDelete ==
    /\ ~Tiled(1)
    /\ Tiled(2)
    /\ Tiled(3)
    /\ Lanes(World) # {Root}

FullscreenLeaves == {w \in Leaves(World) : is_fullscreen(LeafOf(World, w))}

TiledVisible == {w \in Leaves(World) : ~is_window_fullscreen(window_state[w])}

NoVisibleOverlap ==
    \A w, v \in TiledVisible : w # v => ~Overlap(VisibleAreaOf(w), VisibleAreaOf(v))

RECURSIVE AtTreeBoundary(_, _)
AtTreeBoundary(n, d) ==
    IF parent[n] = NoNode
    THEN TRUE
    ELSE LET p == parent[n]
             i == IndexOf(children[p], n)
         IN  /\ \/ direction[p] # Axis(d)
                \/ IF Forward(d) THEN i = Len(children[p]) ELSE i = 1
             /\ AtTreeBoundary(p, d)

\* the selection is missing or has nothing on side d
NothingThatWay(d) ==
    \/ active_window = NoNode
    \/ ~Tiled(active_window)
    \/ AtTreeBoundary(active_window, d)

CommittedStateKept ==
    UNCHANGED <<treeVars, leafVars, hostVars, active_window, is_resizing, area, gaps>>

\* C7: select, move and resize at a tree boundary, or without an active
\* window, return false and leave the selection, the tree, every committed
\* logical area and window state and the interaction mode as they were.
BoundaryCommandsChangeNothing ==
    [][\A d \in Directions :
          NothingThatWay(d) =>
             /\ select(d) => (ret' = FALSE /\ CommittedStateKept)
             /\ move_active_window(d) => (ret' = FALSE /\ CommittedStateKept)
             /\ resize_active_window(d) => (ret' = FALSE /\ CommittedStateKept)
      ]_vars

\* a command was refused in resize mode with the selected leaf at one end of a
\* lane of two
RefusedAtBoundary ==
    /\ ret = FALSE
    /\ is_resizing
    /\ Cardinality(Leaves(World)) = 2
    /\ active_window \in Leaves(World)
    /\ \E d \in Directions : NothingThatWay(d)
    /\ \E d \in Directions : ~NothingThatWay(d)

\* C10: after any command no node has a pending logical area and no leaf a
\* pending window state.
NothingPendingAfterCommand ==
    /\ \A n \in NodeIds : next_logical_area[n] = NoRect
    /\ \A w \in Windows : next_state[w] = NoState

\* state and geometry changes went through commit passes: a leaf is
\* fullscreen and the leaves were laid out anew in the small output
CommittedStateAndGeometry ==
    /\ area = Rect(0, 0, 192, 108)
    /\ Cardinality(Leaves(World)) = 3
    /\ FullscreenLeaves # {}
    /\ \E w \in Leaves(World) : logical_area[w].w < 192 /\ logical_area[w].h < 108


(***************************************************************************)
(* Algebraic properties of LeafNode, checked under LeafSpec.               *)
(***************************************************************************)
\* the leaf under test has neither a pending state nor a pending area
NothingPending ==
    /\ active_window # NoNode
    /\ next_state[active_window] = NoState
    /\ next_logical_area[active_window] = NoRect

\* C11: commit_changes() with nothing pending issues no host call and changes
\* no field of the leaf or of its window; hence a commit_changes() that
\* follows any commit_changes() issues no call and changes nothing
CommitWithNothingPendingDoesNothing ==
    [][/\ (leaf_commit_changes /\ NothingPending) =>
            /\ calls' = <<>>
            /\ UNCHANGED <<treeVars, leafVars, hostVars>>
       /\ leaf_commit_changes =>
            /\ NothingPending'
            /\ commit_changes(Leaf', Neighbors', gaps') = Leaf']_vars

\* C11 witness: a fullscreen leaf with nothing pending on which the last
\* method, called after the commit that made it fullscreen, issued no call
IdleCommitOnFullscreenLeaf ==
    /\ NothingPending
    /\ window_state[active_window] = "maximized"
    /\ clip_area[active_window] = NoRect
    /\ calls = <<>>
    /\ steps = 4

\* the leaf after toggle_fullscreen() and the commit pass that follows it
ToggledAndCommitted(L) == commit_changes(toggle_fullscreen(L), Neighbors, gaps)

\* the host's clip is the one constrain() gives the window in its state
ClipMatchesState(L) ==
    L.clip = IF is_window_fullscreen(L.st) THEN NoRect ELSE get_visible_area(L, Neighbors, gaps)

\* C12: for a leaf with nothing pending whose window is clipped as its state
\* demands, the first toggle (with its commit) flips the window between
\* fullscreen without clip and not fullscreen with the clip on the visible
\* area, and the second toggle (with its commit) brings back the original
\* logical area, visible area and clip
ToggleFullscreenTwiceRestoresClip ==
    (NothingPending /\ ClipMatchesState(Leaf)) =>
        LET once == ToggledAndCommitted(Leaf)
            twice == ToggledAndCommitted([once EXCEPT !.calls = <<>>])
        IN  /\ is_window_fullscreen(once.st) # is_window_fullscreen(Leaf.st)
            /\ ClipMatchesState(once)
            /\ once.la = Leaf.la
            /\ twice.la = Leaf.la
            /\ get_visible_area(twice, Neighbors, gaps) = get_visible_area(Leaf, Neighbors, gaps)
            /\ twice.clip = Leaf.clip
            /\ is_window_fullscreen(twice.st) = is_window_fullscreen(Leaf.st)

\* C12 witness: a leaf with a neighbor, back in the restored state and clipped
\* to its visible area by the commit that followed a second toggle
ToggledTwice ==
    /\ NothingPending
    /\ steps = 5
    /\ Len(children[Root]) >= 2
    /\ window_state[active_window] = "restored"
    /\ clip_area[active_window] = get_visible_area(Leaf, Neighbors, gaps)
    /\ clip_area[active_window] # logical_area[active_window]
    /\ calls = <<Call("change_state", "restored", NoRect, NoRect),
                 Call("clip", NoState, NoRect, clip_area[active_window])>>

\* commit_changes() of the leaf under test, as a method call of its own
Committed(L) == commit_changes([L EXCEPT !.calls = <<>>], Neighbors, gaps)

\* C13: whatever state s the window of a leaf is in, hide(); commit_changes()
\* hides the window with s saved, and show(); commit_changes() after that
\* puts the window back in state s and leaves no snapshot and nothing staged
HideThenShowRestoresState ==
    active_window # NoNode =>
        LET hidden == Committed(hide(Leaf))
            shown == Committed(show(hidden))
        IN  /\ hidden.st = "hidden"
            /\ hidden.bss = Leaf.st
            /\ shown.st = Leaf.st
            /\ shown.bss = NoState
            /\ shown.ns = NoState

\* C13 witness: the only leaf of its lane is in the restored state with no
\* snapshot, put there by the commit of a staged restored state as the fifth
\* call (the layout, hide(), commit_changes(), show(), commit_changes())
ShownAfterHide ==
    /\ NothingPending
    /\ steps = 5
    /\ Len(children[Root]) = 1
    /\ window_state[active_window] = "restored"
    /\ before_shown_state[active_window] = NoState
    /\ rectangle[active_window] = logical_area[active_window]
    /\ calls = <<Call("change_state", "restored", NoRect, NoRect),
                 Call("clip", NoState, NoRect, logical_area[active_window])>>

\* C14: show() on a leaf without a snapshot stages nothing, and after the
\* commit that follows the window is in the state it had before show()
ShowWithoutSnapshotKeepsState ==
    (active_window # NoNode /\ before_shown_state[active_window] = NoState) =>
        LET shown == show(Leaf)
            after == Committed(shown)
        IN  /\ shown.ns = NoState
            /\ shown.bss = NoState
            /\ after.st = Leaf.st
            /\ after.calls = IF Leaf.nla # NoRect /\ ~is_window_fullscreen(Leaf.st)
                             THEN after.calls
                             ELSE <<>>

\* C14 witness: a hidden window with no snapshot and nothing staged after five
\* calls, which only hide(), commit_changes(), show(), show() produce: the
\* second show() found no snapshot
ShownAgainWhileHidden ==
    /\ active_window # NoNode
    /\ steps = 5
    /\ window_state[active_window] = "hidden"
    /\ next_state[active_window] = NoState
    /\ before_shown_state[active_window] = NoState

\* the window state after hide(); hide(); show(); commit_changes(), with a
\* commit_changes() between the two hide() calls
StateAfterCommittedHides(L) ==
    Committed(show(hide(Committed(hide(L))))).st

\* the same without a commit between the two hide() calls
StateAfterUncommittedHides(L) ==
    Committed(show(hide(hide(L)))).st

\* C15 as stated: after hide(); hide(); show(); commit the window is hidden,
\* with or without a commit between the two hide() calls
RepeatedHideAlwaysLosesState ==
    active_window # NoNode =>
        /\ StateAfterCommittedHides(Leaf) = "hidden"
        /\ StateAfterUncommittedHides(Leaf) = "hidden"

\* C15: hide() snapshots the state the host holds.  With a commit between
\* the two hide() calls the second snapshot is the hidden state and the window
\* stays hidden; without one the second hide() snapshots the state the first
\* one saved, and the window returns to it
RepeatedHideSnapshotsHostState ==
    active_window # NoNode =>
        /\ StateAfterCommittedHides(Leaf) = "hidden"
        /\ StateAfterUncommittedHides(Leaf) = Leaf.st
        /\ hide(Committed(hide(Leaf))).bss = "hidden"
        /\ hide(hide(Leaf)).bss = Leaf.st

\* C15 witness: the hidden state staged on a hidden window with no snapshot
\* left, which only hide(), commit_changes(), hide(), show() produce
HiddenSnapshotRestored ==
    /\ active_window # NoNode
    /\ steps = 5
    /\ window_state[active_window] = "hidden"
    /\ next_state[active_window] = "hidden"
    /\ before_shown_state[active_window] = NoState

(***************************************************************************)
(* Properties of the tree's commands, checked under Spec.                  *)
(***************************************************************************)
\* the command toggles the active leaf into fullscreen
ActiveLeafEntersFullscreen ==
    /\ output_toggle_fullscreen
    /\ Selected(World, active_window)
    /\ ~is_window_fullscreen(window_state[active_window])
    /\ is_window_fullscreen(window_state'[active_window])

ResizeNeighbor(d) ==
    IF ~Selected(World, active_window)
    THEN NoNode
    ELSE LET p == parent[active_window]
             i == IndexOf(children[p], active_window)
             j == IF Forward(d) THEN i + 1 ELSE i - 1
         IN  IF direction[p] = Axis(d) /\ j \in 1..Len(children[p])
             THEN children[p][j]
             ELSE NoNode

AtOrAboveFloor(r) == r.w >= get_min_width /\ r.h >= get_min_height

\* what a successful resize in direction d does to the active leaf's lane
ResizedAgainstNeighbor(d) ==
    LET p == parent[active_window]
        a == Axis(d)
        nb == ResizeNeighbor(d)
        delta == AxisLen(logical_area'[active_window], a)
                    - AxisLen(logical_area[active_window], a)
    IN  /\ is_resizing
        /\ nb # NoNode
        /\ delta # 0
        /\ AxisLen(logical_area'[nb], a) = AxisLen(logical_area[nb], a) - delta
        /\ AxisLen(logical_area'[active_window], Perpendicular(a))
              = AxisLen(logical_area[active_window], Perpendicular(a))
        /\ AxisLen(logical_area'[nb], Perpendicular(a))
              = AxisLen(logical_area[nb], Perpendicular(a))
        /\ AtOrAboveFloor(logical_area'[active_window])
        /\ AtOrAboveFloor(logical_area'[nb])
        /\ AxisLen(logical_area'[nb], a) >= get_min(World, nb, a)
        /\ \A i \in 1..Len(children[p]) :
              children[p][i] \notin {active_window, nb} =>
                  logical_area'[children[p][i]] = logical_area[children[p][i]]
        /\ logical_area'[p] = logical_area[p]
        /\ SumSeq([i \in 1..Len(children[p]) |-> AxisLen(logical_area'[children[p][i]], a)])
              = SumSeq([i \in 1..Len(children[p]) |-> AxisLen(logical_area[children[p][i]], a)])
        /\ UNCHANGED <<parent, children, direction, active_window, is_resizing>>

\* C17: try_resize_active_window(direction) returns true exactly in resize
\* mode when the active leaf has a sibling across a lane boundary in that
\* direction and that sibling is above its floor; then the active leaf grows
\* along the lane axis by a delta, the sibling shrinks by the same delta, both
\* stay at or above 50x50, the other siblings and the lane keep their areas
\* and the sizes still sum to the same; when it returns false nothing changes
ResizeTradesSizeWithNeighbor ==
    [][\A d \in Directions :
         resize_active_window(d) =>
            /\ ret' = (/\ is_resizing
                       /\ ResizeNeighbor(d) # NoNode
                       /\ AxisLen(logical_area[ResizeNeighbor(d)], Axis(d))
                             > get_min(World, ResizeNeighbor(d), Axis(d)))
            /\ ret' = TRUE => ResizedAgainstNeighbor(d)
            /\ ret' = FALSE => CommittedStateKept]_vars

\* C17 witness: the two leaves of a horizontal root lane, equal before, differ
\* in width by two resize steps' worth after a successful resize
ResizedPair ==
    /\ ret = TRUE
    /\ is_resizing
    /\ Selected(World, active_window)
    /\ direction[Root] = "horizontal"
    /\ Len(children[Root]) = 2
    /\ \A i \in 1..2 : children[Root][i] \in Windows
    /\ logical_area[active_window].w
          = logical_area[CHOOSE w \in Windows : Tiled(w) /\ w # active_window].w
              + 2 * ResizeJump

(***************************************************************************)
(* Properties of the workspace lookup, checked under WorkspaceSpec.        *)
(***************************************************************************)
ActiveWorkspaceListed == \E i \in 1..Len(workspaces) : workspaces[i] = active_workspace

PlacementIsTheAdjustedRectangle ==
    /\ placement.type = "tiled" => placement.returned = placement.tree
    /\ placement.type = "floating" => placement.returned = placement.floating

\* C19, what the code does: a floating window gets the floating window
\* manager's answer, a tiled window gets the proposed rectangle back, whatever
\* the tree made of it
PlacementOfTiledWindowIsTheProposal ==
    /\ placement.type = "tiled" => placement.returned = placement.proposed
    /\ placement.type = "floating" => placement.returned = placement.floating

\* C19 witness: a tiled window that is to be restored was proposed a rectangle
\* other than its leaf's visible area, which the tree put in its place
TreeAdjustedPlacement ==
    /\ placement.type = "tiled"
    /\ placement.state = "restored"
    /\ placement.tree = VisibleAreaOf(placement.window)
    /\ placement.tree # placement.proposed

(***************************************************************************)
(* Gaps between the leaves of a tree, checked under Spec.                  *)
(***************************************************************************)
Opposite(d) ==
    CASE d = "left" -> "right"
      [] d = "right" -> "left"
      [] d = "up" -> "down"
      [] d = "down" -> "up"

\* the coordinate of a rectangle's side
SideAt(r, d) ==
    CASE d = "left" -> r.x
      [] d = "right" -> r.x + r.w
      [] d = "up" -> r.y
      [] d = "down" -> r.y + r.h

\* the stretch two rectangles have in common across the axis of d
CommonStretch(r, q, d) ==
    IF Axis(d) = "horizontal"
    THEN Min(r.y + r.h, q.y + q.h) - Max(r.y, q.y)
    ELSE Min(r.x + r.w, q.x + q.w) - Max(r.x, q.x)

\* side d of leaf a's logical area lies on the opposite side of leaf b's
SharesEdge(a, b, d) ==
    /\ a # b
    /\ SideAt(logical_area[a], d) = SideAt(logical_area[b], Opposite(d))
    /\ CommonStretch(logical_area[a], logical_area[b], d) > 0

\* how far the visible area of leaf w stays behind its logical area on side d
Shrunk(w, d) ==
    IF Forward(d)
    THEN SideAt(logical_area[w], d) - SideAt(VisibleAreaOf(w), d)
    ELSE SideAt(VisibleAreaOf(w), d) - SideAt(logical_area[w], d)

GapShare(d) == CeilHalf(IF Axis(d) = "horizontal" THEN gaps[1] ELSE gaps[2])

OnRootEdge(w, d) == SideAt(logical_area[w], d) = SideAt(logical_area[Root], d)

\* leaf w has a sibling next to it on side d in its own lane
SiblingOnSide(w, d) ==
    LET p == parent[w]
        i == IndexOf(children[p], w)
    IN  /\ direction[p] = Axis(d)
        /\ (IF Forward(d) THEN i + 1 ELSE i - 1) \in 1..Len(children[p])

\* no side of a leaf that lies on the root's edge is shrunk
RootEdgeNeverShrunk ==
    \A w \in Windows, d \in Directions :
        (Tiled(w) /\ OnRootEdge(w, d)) => Shrunk(w, d) = 0

RECURSIVE Descendants(_, _)
Descendants(W, n) ==
    IF n \in Windows
    THEN {n}
    ELSE {n} \cup UNION {Descendants(W, W.children[n][i]) : i \in 1..Len(W.children[n])}

\* the places (lane, index) at which node n is held as a child
SlotsOf(W, n) ==
    {s \in LaneIds \X (1..MaxWindows) :
        s[2] <= Len(W.children[s[1]]) /\ W.children[s[1]][s[2]] = n}

\* every node under the root is held at exactly one place, by the lane its
\* parent reference names; the root alone is parentless; what is not under
\* the root holds nothing and is held nowhere
WellFormed(W) ==
    /\ W.parent[Root] = NoNode
    /\ SlotsOf(W, Root) = {}
    /\ \A n \in NodeIds \ {Root} :
          IF n \in Descendants(W, Root)
          THEN /\ W.parent[n] \in LaneIds
               /\ W.parent[n] \in Descendants(W, Root)
               /\ \E i \in 1..MaxWindows : SlotsOf(W, n) = {<<W.parent[n], i>>}
          ELSE /\ W.parent[n] = NoNode
               /\ SlotsOf(W, n) = {}
               /\ n \in LaneIds => W.children[n] = <<>>

\* leaf w is one of the two children of a lane other than the root
LeavesOneSibling(W, w) ==
    /\ InTree(W, w)
    /\ W.parent[w] # Root
    /\ Len(W.children[W.parent[w]]) = 2

\* what remove_node(w) makes of the tree when it leaves w's lane one child
SplicedAfterRemove(W, w) ==
    LET lane == W.parent[w]
        gp == W.parent[lane]
        slot == IndexOf(W.children[gp], lane)
        c == CHOOSE k \in NodeIds :
                 k # w /\ \E i \in 1..2 : W.children[lane][i] = k
        R == remove_node(W, w)
    IN  /\ Len(R.children[gp]) = Len(W.children[gp])
        /\ R.children[gp][slot] = c
        /\ \A i \in 1..Len(W.children[gp]) :
              i # slot => R.children[gp][i] = W.children[gp][i]
        /\ R.parent[c] = gp
        /\ lane \notin Descendants(R, Root)
        /\ w \notin Descendants(R, Root)
        /\ Descendants(R, Root) = Descendants(W, Root) \ {w, lane}
        /\ \A l \in LaneIds \ {gp, lane} : R.children[l] = W.children[l]
        /\ WellFormed(R)

\* C21: in every reachable tree each node under the root is held by exactly
\* one lane and only the root is parentless; and whenever remove_node() leaves
\* a lane other than the root with one child, that child takes the lane's
\* index in the grandparent and the grandparent as its parent, the lane is
\* no longer under the root, the grandparent's other children keep their
\* places, and the tree is again well formed
RemoveSplicesLastChild ==
    /\ WellFormed(World)
    /\ \A w \in Windows : LeavesOneSibling(World, w) => SplicedAfterRemove(World, w)

\* C21 witness: window 1 was deleted from a lane it shared with window 3 in
\* front of window 2, and window 3 now stands in that lane's place
SiblingInPlaceOfLane ==
    /\ ~Tiled(1)
    /\ children[Root] = <<3, 2>>
    /\ direction[Root] = "vertical"
    /\ Lanes(World) = {Root}
    /\ logical_area[3] = Rect(area.x, area.y, area.w, area.h \div 2)

(***************************************************************************)
(* Moving the active leaf into an adjacent lane, checked under Spec.       *)
(***************************************************************************)
\* the lane the active leaf would enter by a move in direction d: the node
\* that the nearest lane boundary in that direction leads to, when that node
\* is a lane; NoNode when there is no such lane
RECURSIVE AdjacentThatWay(_, _)
AdjacentThatWay(n, d) ==
    IF n = Root \/ n = NoNode \/ parent[n] = NoNode
    THEN NoNode
    ELSE LET p == parent[n]
             i == IndexOf(children[p], n)
             j == IF Forward(d) THEN i + 1 ELSE i - 1
         IN  IF direction[p] = Axis(d) /\ j \in 1..Len(children[p])
             THEN children[p][j]
             ELSE AdjacentThatWay(p, d)

CrossesIntoLane(d) ==
    /\ Selected(World, active_window)
    /\ AdjacentThatWay(active_window, d) \in LaneIds

\* the sequence without node n
Without(seq, n) == SelectSeq(seq, LAMBDA k : k # n)

\* what a move of the active leaf into the adjacent lane in direction d does
MovedIntoLane(d) ==
    LET w == active_window
        from == parent[w]
        to == AdjacentThatWay(w, d)
        collapsing == from # Root /\ Len(children[from]) = 2
    IN  /\ ret' = TRUE
        /\ active_window' = w
        /\ parent'[w] = to
        /\ Without(children'[to], w) = children[to]
        /\ direction'[to] = direction[to]
        /\ direction[to] = Axis(d) =>
              children'[to] = IF Forward(d)
                              THEN <<w>> \o children[to]
                              ELSE Append(children[to], w)
        /\ IF collapsing
           THEN /\ parent'[from] = NoNode
                /\ children'[from] = <<>>
                /\ from \notin Descendants(World', Root)
           ELSE children'[from] = Without(children[from], w)
        /\ Leaves(World') = Leaves(World)
        /\ Descendants(World', Root) \cap Windows = Descendants(World, Root) \cap Windows
        /\ WellFormed(World')

FloatingUnder(x, y) ==
    {i \in DOMAIN floating_windows : contains(floating_windows[i].area, x, y)}

\* the leaves whose visible area is under the point, by place in pre-order
LeavesUnder(x, y) ==
    LET order == leaves_in_preorder(World, Root)
    IN  {i \in DOMAIN order : contains(VisibleAreaOf(order[i]), x, y)}

\* what the pointer picks at (x, y), NoNode standing for no selection call
PickedAt(x, y) ==
    LET under == FloatingUnder(x, y)
        leaves == LeavesUnder(x, y)
        order == leaves_in_preorder(World, Root)
    IN  IF FullscreenLeaves # {}
        THEN NoNode
        ELSE IF \E i \in under : floating_windows[i].window = active_window
        THEN NoNode
        ELSE IF under # {}
        THEN floating_windows[CHOOSE i \in under : \A j \in under : j <= i].window
        ELSE IF leaves = {}
        THEN NoNode
        ELSE LET first == order[CHOOSE i \in leaves : \A j \in leaves : i <= j]
             IN  IF first = active_window THEN NoNode ELSE first

\* C23: select_window_from_point(x, y) selects nothing when the active tree has
\* a fullscreen window; else nothing when the active window is a floating
\* window under the point; else the last floating window in list order that is
\* under the point; else the first leaf in pre-order whose visible area is
\* under the point, with no selection call when that leaf's window is already
\* active or no leaf is under the point.
PointSelectsInOrder ==
    [][\A p \in Points :
         select_window_from_point(p[1], p[2]) =>
             /\ selected'.window = PickedAt(p[1], p[2])
             /\ active_window' = IF PickedAt(p[1], p[2]) = NoNode
                                 THEN active_window
                                 ELSE PickedAt(p[1], p[2])]_vars

\* two floating windows lie under the point while a tiled window is active,
\* and the later one in the list was selected
LastFloatingWindowPicked ==
    /\ Len(floating_windows) = 2
    /\ FloatingUnder(selected.x, selected.y) = {1, 2}
    /\ Tiled(3)
    /\ FullscreenLeaves = {}
    /\ selected.window = floating_windows[2].window
    /\ active_window = selected.window

\* the windows the workspace manages: on a leaf or in the floating list
ManagedWindows == {w \in Windows : Managed(w)}

\* how often window w is listed among the floating windows
TimesFloating(w) ==
    Cardinality({i \in DOMAIN floating_windows : floating_windows[i].window = w})

\* how often window w is the child of a lane
TimesTiled(w) ==
    Cardinality({<<l, i>> \in LaneIds \X (1..MaxWindows) :
                     i <= Len(children[l]) /\ children[l][i] = w})

\* a window is on one leaf of the tree or once in the floating list, and
\* never both
InOnePlace ==
    \A w \in Windows :
        /\ TimesTiled(w) = (IF Tiled(w) THEN 1 ELSE 0)
        /\ TimesTiled(w) + TimesFloating(w) <= 1
        /\ Tiled(w) => InTree(World, w)

\* C26: through request_toggle_active_float, window creation and window
\* deletion every managed window is on exactly one leaf of the tree or exactly
\* once in the workspace's floating list, never both and never neither:
\* creation adds the window to the managed ones, deletion takes it away, the
\* toggle keeps them all and moves the active window from one place to the
\* other; the toggle on a tiled window whose tree has a fullscreen window
\* changes nothing.
ToggleFloatKeepsEveryWindowInOnePlace ==
    /\ InOnePlace
    /\ [][/\ InOnePlace'
          /\ \A w \in Windows :
                 /\ create_window(w) => ManagedWindows' = ManagedWindows \cup {w}
                 /\ delete_window(w) => ManagedWindows' = ManagedWindows \ {w}
          /\ \A r \in FloatingPlacements :
                 request_toggle_active_float(r) =>
                     /\ ManagedWindows' = ManagedWindows
                     /\ \A w \in ManagedWindows :
                            (w = active_window /\ FullscreenLeaves = {}) =>
                                /\ Tiled(w)' = Floating(w)
                                /\ Floating(w)' = Tiled(w)
                     /\ \A w \in Windows :
                            (w = active_window /\ Tiled(w) /\ FullscreenLeaves # {}) =>
                                UNCHANGED <<treeVars, leafVars, hostVars, active_window,
                                            is_resizing, floating_windows>>]_vars

\* window 1 was floated and window 2 is on a fullscreen leaf, so that a
\* toggle on window 2 is refused
FloatedBesideFullscreenLeaf ==
    /\ TimesFloating(1) = 1 /\ ~Tiled(1)
    /\ Tiled(2) /\ TimesFloating(2) = 0
    /\ FullscreenLeaves = {2}
    /\ active_window = 2
    /\ steps = 5

(***************************************************************************)
(* Properties of workspace switches, checked under SwitchSpec.             *)
(***************************************************************************)
\* the places of a call among the calls of the last switch
PlacesOf(effects, op, k) == {i \in DOMAIN effects : effects[i] = Effect(op, k)}

\* C24: advise_workspace_active(key) for a listed workspace returns true with
\* active_workspace = key; when key is already active nothing changes (no
\* show, no animation, no deletion); otherwise the destination is shown and
\* made active before the departed workspace is considered for deletion, and
\* the departed workspace is deleted exactly when its tree is empty and it
\* has no floating windows.
SwitchShowsBeforeDeleting ==
    [][\A key \in WorkspaceIds :
         (Listed(workspaces, key) /\ workspace_active(key)) =>
             LET e == switched'.effects
                 from == active_workspace
             IN  /\ switched'.ret = TRUE
                 /\ active_workspace' = key
                 /\ IF active_workspace = key
                    THEN /\ e = <<>>
                         /\ UNCHANGED <<workspaces, hidden_workspaces, animations, occupied>>
                    ELSE /\ key \notin hidden_workspaces'
                         /\ Listed(workspaces', key)
                         /\ \E s \in PlacesOf(e, "show", key) :
                            \E a \in PlacesOf(e, "set_active", key) :
                                /\ s < a
                                /\ \A d \in DOMAIN e : e[d].op = "delete_workspace" => a < d
                         /\ (PlacesOf(e, "delete_workspace", from) # {})
                                = (Listed(workspaces, from) /\ from \notin occupied)
                         /\ \A k \in WorkspaceIds :
                                Listed(workspaces', k) =
                                    /\ Listed(workspaces, k)
                                    /\ ~(k = from /\ from \notin occupied)]_vars

\* the last switch left a workspace without windows behind, and it is gone
DepartedEmptyWorkspaceDeleted ==
    /\ switched.effects # <<>>
    /\ switched.effects[Len(switched.effects)].op = "delete_workspace"
    /\ ~Listed(workspaces, switched.effects[Len(switched.effects)].workspace)
    /\ active_workspace = switched.key
    /\ Listed(workspaces, active_workspace)
    /\ active_workspace \notin hidden_workspaces

\* C25: the active workspace is never hidden: in every interleaving of
\* advise_workspace_active calls and animation callbacks, the hide() of a
\* completed switch falls on a workspace that is not the active one at that
\* moment, so a listed active workspace is never among the hidden ones.
CompletedSwitchHidesInactiveWorkspace ==
    /\ [][\A a \in animations :
            animation_completes(a) =>
                (a.from # NoWorkspace => a.from # active_workspace)]_vars
    /\ [](Listed(workspaces, active_workspace) => active_workspace \notin hidden_workspaces)

\* the output switched from its first workspace to another one and back
\* before the first switch was completed; its completion then hid the first
\* workspace, which is the active one
ActiveWorkspaceHidden ==
    /\ active_workspace = FirstWorkspace
    /\ Listed(workspaces, active_workspace)
    /\ active_workspace \in hidden_workspaces
    /\ switched.key = FirstWorkspace
    /\ \E k \in WorkspaceIds : animations = {[from |-> k, to |-> FirstWorkspace]}

(***************************************************************************)
(* The host's view of a leaf after a commit, checked under LeafSpec.       *)
(***************************************************************************)
\* the window of leaf w is where the leaf is: a fullscreen window is not
\* clipped, any other window has its rectangle and its clip on the leaf's
\* visible area
HostOnVisibleArea(w) ==
    IF is_window_fullscreen(window_state[w])
    THEN clip_area[w] = NoRect
    ELSE /\ rectangle[w] = VisibleAreaOf(w)
         /\ clip_area[w] = VisibleAreaOf(w)

\* C27: after every commit pass each leaf that is not fullscreen has its host
\* rectangle and its clip equal to its current get_visible_area(), and each
\* fullscreen leaf has no clip, also when the logical area of the leaf was
\* changed while it was fullscreen and the leaf was restored afterwards.
CommitLeavesHostOnVisibleArea ==
    [][leaf_commit_changes => HostOnVisibleArea(active_window)']_vars

\* the leaf got a new logical area while it was fullscreen and was restored
\* by the next commit: nothing is pending, the clip is the new visible area
\* and the rectangle still is the one from before
RestoredOnStaleRectangle ==
    /\ active_window # NoNode
    /\ steps = 6
    /\ window_state[active_window] = "restored"
    /\ next_state[active_window] = NoState
    /\ next_logical_area[active_window] = NoRect
    /\ Len(calls) = 2
    /\ calls[1].call = "change_state"
    /\ clip_area[active_window] = VisibleAreaOf(active_window)
    /\ rectangle[active_window] # VisibleAreaOf(active_window)
    /\ rectangle[active_window] # NoRect

(***************************************************************************)
(* Properties of the application zone list, checked under ZoneSpec.        *)
(***************************************************************************)
\* the list after a zone left it
WithoutZone(list, z) == SelectSeq(list, LAMBDA e : e # z)

\* the list after the first zone equal to original was replaced
WithZoneReplaced(list, updated, original) ==
    [i \in 1..Len(list) |->
        IF list[i] = original /\ (\A j \in 1..(i - 1) : list[j] # original)
        THEN updated
        ELSE list[i]]

\* the root area follows the first listed zone whenever the trees are
\* recalculated
RootAreaFromZones ==
    (recalculated /\ application_zone_list # <<>>) =>
        logical_area[Root] = application_zone_list[1].extents

\* creation and update keep the list in step with the host: a zone whose
\* extents contain the output area is appended, a listed zone is overwritten
\* by its update, and the trees are recalculated exactly then
CreatedAndUpdatedZonesListed ==
    [][/\ \A z \in Zones :
              advise_application_zone_create(z) =>
                  /\ application_zone_list' =
                         (IF Contains(z.extents, area)
                          THEN Append(application_zone_list, z)
                          ELSE application_zone_list)
                  /\ recalculated' = Contains(z.extents, area)
       /\ \A u \in Zones, o \in Zones :
              advise_application_zone_update(u, o) =>
                  /\ application_zone_list' = WithZoneReplaced(application_zone_list, u, o)
                  /\ recalculated' = ZoneListed(application_zone_list, o)
       /\ RootAreaFromZones']_vars

\* C28: after any sequence of advise_application_zone_create / _update /
\* _delete the application zone list holds exactly the zones created with
\* extents containing the output area, with updates applied and deleted zones
\* removed; every such effective change, and no ignored one, recalculates the
\* root area of the trees from the current zones.
ZoneListFollowsHostZones ==
    /\ CreatedAndUpdatedZonesListed
    /\ [][\A z \in Zones :
              advise_application_zone_delete(z) =>
                  /\ application_zone_list' = WithoutZone(application_zone_list, z)
                  /\ recalculated' = ZoneListed(application_zone_list, z)]_vars
    /\ [](\A i \in 1..Len(application_zone_list) : application_zone_list[i] \in host_zones)

\* the host has deleted its only zone, and the zone is still listed and the
\* root area was recalculated from it
DeletedZoneStillListed ==
    /\ host_zones = {}
    /\ Len(application_zone_list) = 1
    /\ recalculated
    /\ logical_area[Root] = application_zone_list[1].extents
    /\ logical_area[Root] # area

=============================================================================
